---------------------------- MODULE Spec2Model ----------------------------
(***************************************************************************)
(* Model of the PDF password recovery tool:                                *)
(*   - PasswordGenerator (password_generator.py): estimate_count and the   *)
(*     candidate enumeration of generate_passwords, one candidate a step;  *)
(*   - PasswordRecoveryThread (main.py): the search worker with its        *)
(*     pause gate, driven concurrently through pause/resume/cancel.        *)
(*   - check_memory_usage of PasswordGenerationThread and of               *)
(*     PasswordRecoveryThread (main.py), applied to samples around their   *)
(*     thresholds (SpecMemory).                                            *)
(*                                                                         *)
(* Python integers are unbounded and the real alphabets have 26/26/10/8    *)
(* characters with a cap of 1,000,000 candidates.  estimate_count is       *)
(* checked with these real numbers (SpecEstimate).  The enumeration is     *)
(* checked on a scaled alphabet (2/1/2/1 characters) with a scaled cap     *)
(* that keeps the code's regime: the cap is not below the number of        *)
(* candidates of lengths 1..3 over the whole alphabet                      *)
(* (70 + 70^2 + 70^3 = 347,970 <= 1,000,000 in the code).                  *)
(***************************************************************************)
EXTENDS Integers, Sequences, FiniteSets, TLC

VARIABLES
    (* ---- PasswordGenerator ---- *)
    gen,            \* the PasswordGenerator object (self): policy fields + MAX_PASSWORDS
    gen_pc,         \* "idle" | "emit" | "done": position inside generate_passwords
    chars,          \* local chars
    total_estimate, \* local total_estimate
    progress_interval, \* local progress_interval
    length,         \* loop variable of the for over lengths
    group,          \* which product loop is running: short|lower|digits|mixed|full|none
    gen_k,          \* number of tuples the running product loop has yielded
    count,          \* local count
    passwords,      \* local passwords (the returned list)
    stop_req,       \* a callback has returned False (generation was stopped)
    run_no,         \* 1 or 2: which call of generate_passwords on this object
    first_result,   \* the list returned by the first call
    est,            \* result of a direct estimate_count() call (-1: not called)
    calls,          \* history: callback invocations and groups of the running call
    (* ---- PasswordRecoveryThread ---- *)
    password_list,  \* self.password_list
    accepts,        \* candidates the document's decrypt() accepts
    pc,             \* worker position in run()
    i,              \* local i of run()
    j,              \* local j of run()
    end_batch,      \* local end_batch of run()
    current_position, \* self.current_position (the cursor)
    paused,         \* self.paused
    cancelled,      \* self.cancelled
    tested,         \* history: indices handed to try_password, in order
    events,         \* history: signals emitted by the worker, in order
    hist,           \* history flags of the driver calls
    (* ---- PasswordGenerationThread, memory checks ---- *)
    gt_cancelled,   \* self.cancelled of the generation thread
    gt_events,      \* history: signals emitted by the generation thread, in order
    gt_pc,          \* position of the generation thread in run()
    gt_calls,       \* history: the callback invocations run() has received
    mem,            \* history: the last direct check_memory_usage() call
    PSUTIL_AVAILABLE,   \* whether "import psutil" succeeds in this process
    (* ---- PDFPasswordRecoveryApp ---- *)
    current_index,  \* steps_widget.currentIndex()
    pdf_path,       \* self.pdf_path ("none" for None)
    validated,      \* history: the paths validate_pdf() has returned valid for
    modal,          \* the message boxes open in the middle of a handler, innermost last
    app_list,       \* self.password_list: "empty" for [], else "nonempty"
    options,        \* no_limit_checkbox, disclaimer_checkbox (checked, enabled)
    generation_threads, \* the PasswordGenerationThread objects still running, oldest
                        \* first, and last the one self.generation_thread refers to
    recovery_threads,   \* the same for PasswordRecoveryThread and self.recovery_thread
    stale_dialog,   \* a generation dialog older than self.generation_dialog is visible
    started,        \* history: the number of threads created so far
    signals,        \* signals queued for the GUI thread, oldest first
    delivered,      \* the number of signals in events the GUI thread has handled
    buttons,        \* enabled state of start_button, pause_button, cancel_button
    is_recovery_paused, \* self.is_recovery_paused
    progress_bar,   \* progress_bar.value()
    aborted         \* the process has been aborted by the Qt runtime

genVars == <<gen, gen_pc, chars, total_estimate, progress_interval, length,
             group, gen_k, count, passwords, stop_req, run_no, first_result, est,
             calls>>
searchVars == <<password_list, accepts, pc, i, j, end_batch, current_position,
                paused, cancelled, tested, events, hist>>
threadVars == <<gt_cancelled, gt_events, gt_pc, gt_calls, mem, PSUTIL_AVAILABLE>>
appVars == <<current_index, pdf_path, validated, modal, app_list, options,
             generation_threads, recovery_threads, stale_dialog, started, signals,
             delivered,
             buttons, is_recovery_paused, progress_bar, aborted>>
vars == <<genVars, searchVars, threadVars, appVars>>

-----------------------------------------------------------------------------
(* Bounds of the model *)

\* largest max_length explored by the enumeration
MaxLength == 4
\* scaled MAX_PASSWORDS of the policies that start above length 3: one below
\* 2^4 (no 4-tuple product fits) and one that holds a whole structured
\* fallback of length 4 (16 + 16 + 16)
SmallFallbackLimit == 10
LargeFallbackLimit == 50
\* scaled MAX_PASSWORDS of the enumeration (2+1+2+1 = 6 characters: 6+36+216)
ScaledLimit == 258
\* an unlimited enumeration is explored only when it yields at most this many
MaxUnlimitedTotal == 90

(* Program constants *)

\* password_generator.py:33
MAX_PASSWORDS_LIMIT == 1000000
\* float('inf') of password_generator.py:33
INF == -1
\* password_generator.py:86
SHORT_LENGTH == 3
\* password_generator.py:76
PROGRESS_MAX_INTERVAL == 10000
\* password_generator.py:76
PROGRESS_TICKS == 100
\* password_generator.py:101
PATTERN_FACTOR == 10

\* main.py:185
BATCH_SIZE == 100
\* main.py:204
SAMPLE_EVERY == 10
\* main.py:220
MEMORY_CHECK_EVERY == 1000
\* main.py:167
MEMORY_LIMIT_MB == 1000

\* most threads the application creates in a run
MaxStarts == 3
\* most callback invocations of one generate_passwords call (SpecGeneration)
MaxCallbacks == 3
\* longest candidate list of the traced search (SpecCalls)
CallsListLength == 2
\* longest candidate list handed to the search worker
MaxTotal == 205

Min(a, b) == IF a < b THEN a ELSE b
Max(a, b) == IF a > b THEN a ELSE b

\* string.ascii_lowercase, string.ascii_uppercase, string.digits, '!@#$%^&*'
RealAlphabet ==
    [lower   |-> <<"a","b","c","d","e","f","g","h","i","j","k","l","m",
                   "n","o","p","q","r","s","t","u","v","w","x","y","z">>,
     upper   |-> <<"A","B","C","D","E","F","G","H","I","J","K","L","M",
                   "N","O","P","Q","R","S","T","U","V","W","X","Y","Z">>,
     digits  |-> <<"0","1","2","3","4","5","6","7","8","9">>,
     special |-> <<"!","@","#","$","%","^","&","*">>]

\* the same four classes, cut down to their first characters
ScaledAlphabet ==
    [lower   |-> <<"a","b">>,
     upper   |-> <<"A">>,
     digits  |-> <<"0","1">>,
     special |-> <<"!">>]

\* the literals 26, 26, 10, 8 of estimate_count
CLASS_SIZE == [lower |-> 26, upper |-> 26, digits |-> 10, special |-> 8]

\* the same literals for the scaled alphabet
ScaledClassSize ==
    [lower   |-> Len(ScaledAlphabet.lower),
     upper   |-> Len(ScaledAlphabet.upper),
     digits  |-> Len(ScaledAlphabet.digits),
     special |-> Len(ScaledAlphabet.special)]

-----------------------------------------------------------------------------
(* PasswordGenerator *)

\* __init__
PasswordGenerator(min_length, max_length, lc, uc, dg, sp, no_limit, limit) ==
    [min_length    |-> min_length,
     max_length    |-> max_length,
     use_lowercase |-> lc,
     use_uppercase |-> uc,
     use_digits    |-> dg,
     use_special   |-> sp,
     MAX_PASSWORDS |-> IF no_limit THEN INF ELSE limit]

\* x > self.MAX_PASSWORDS and x >= self.MAX_PASSWORDS, with float('inf')
ExceedsMax(x, max) == max # INF /\ x > max
\* mutants of the hard cap test: no test, ">" for ">=", and a cap taken one
\* too early
ReachesMaxNever(x, max) == FALSE
ReachesMaxLate(x, max) == max # INF /\ x > max
ReachesMaxEarly(x, max) == max # INF /\ x + 1 >= max
ReachesMax(x, max) == max # INF /\ x >= max

\* mutant: every class is taken, whatever is selected
BuildCharsAll(self, alphabet) ==
    alphabet.lower \o alphabet.upper \o alphabet.digits \o alphabet.special

\* chars of generate_passwords
BuildChars(self, alphabet) ==
    LET c1 == IF self.use_lowercase THEN alphabet.lower ELSE <<>>
        c2 == IF self.use_uppercase THEN c1 \o alphabet.upper ELSE c1
        c3 == IF self.use_digits THEN c2 \o alphabet.digits ELSE c2
        c4 == IF self.use_special THEN c3 \o alphabet.special ELSE c3
    IN  IF c4 = <<>> THEN alphabet.lower ELSE c4

\* mutant: with no class selected nothing is counted
CharCountNoDefault(self, size) ==
    (IF self.use_lowercase THEN size.lower ELSE 0)
    + (IF self.use_uppercase THEN size.upper ELSE 0)
    + (IF self.use_digits THEN size.digits ELSE 0)
    + (IF self.use_special THEN size.special ELSE 0)

\* char_count of estimate_count
CharCount(self, size) ==
    LET n == (IF self.use_lowercase THEN size.lower ELSE 0)
           + (IF self.use_uppercase THEN size.upper ELSE 0)
           + (IF self.use_digits THEN size.digits ELSE 0)
           + (IF self.use_special THEN size.special ELSE 0)
    IN  IF n = 0 THEN size.lower ELSE n

\* mutant: range(min_length, max_length) leaves the last length out
RECURSIVE TotalFromShort(_, _, _, _)
TotalFromShort(char_count, len, max_length, total) ==
    IF len >= max_length THEN total
    ELSE TotalFromShort(char_count, len + 1, max_length, total + char_count ^ len)

\* the loop "for length in range(min_length, max_length + 1): total += ..."
RECURSIVE TotalFrom(_, _, _, _)
TotalFrom(char_count, len, max_length, total) ==
    IF len > max_length THEN total
    ELSE TotalFrom(char_count, len + 1, max_length, total + char_count ^ len)

estimate_count(self, size) ==
    LET total == TotalFrom(CharCount(self, size), self.min_length, self.max_length, 0)
    IN  IF self.MAX_PASSWORDS = INF THEN total
        ELSE Min(total, self.MAX_PASSWORDS)

\* mutant: the leftmost position varies fastest
ProductAtLeftFastest(pool, repeat, k) ==
    [p \in 1..repeat |-> pool[((k \div (Len(pool) ^ (p - 1))) % Len(pool)) + 1]]

\* the k-th tuple (k from 0) yielded by itertools.product(pool, repeat=repeat)
ProductAt(pool, repeat, k) ==
    [p \in 1..repeat |-> pool[((k \div (Len(pool) ^ (repeat - p))) % Len(pool)) + 1]]

\* number of candidates the product loop of a group yields at a length
GroupSize(self, grp, len) ==
    CASE grp = "short"  -> Len(BuildChars(self, ScaledAlphabet)) ^ len
      [] grp = "full"   -> Len(BuildChars(self, ScaledAlphabet)) ^ len
      [] grp = "lower"  -> Len(ScaledAlphabet.lower) ^ len
      [] grp = "digits" -> Len(ScaledAlphabet.digits) ^ len
      [] grp = "mixed"  -> (Len(ScaledAlphabet.lower) ^ (len \div 2))
                           * (Len(ScaledAlphabet.digits) ^ (len - (len \div 2)))

\* the k-th candidate (k from 0) appended by the product loop of a group
GroupCandidate(self, grp, len, k) ==
    CASE grp = "short"  -> ProductAt(BuildChars(self, ScaledAlphabet), len, k)
      [] grp = "full"   -> ProductAt(BuildChars(self, ScaledAlphabet), len, k)
      [] grp = "lower"  -> ProductAt(ScaledAlphabet.lower, len, k)
      [] grp = "digits" -> ProductAt(ScaledAlphabet.digits, len, k)
      [] grp = "mixed"  ->
            LET half  == len \div 2
                inner == Len(ScaledAlphabet.digits) ^ (len - half)
            IN  ProductAt(ScaledAlphabet.lower, half, k \div inner)
                \o ProductAt(ScaledAlphabet.digits, len - half, k % inner)

\* Control flow of the for over lengths between two product loops: from the
\* given place ("top" of the body for len, or just before the lowercase /
\* digits / mixed block) to the next product loop that runs.
RECURSIVE Seek(_, _, _, _)
Seek(self, len, stage, cnt) ==
    IF len > self.max_length THEN [length |-> len, group |-> "none"]
    ELSE CASE stage = "top" ->
                IF ExceedsMax(Len(BuildChars(self, ScaledAlphabet)) ^ len + cnt,
                              self.MAX_PASSWORDS)
                THEN IF len <= SHORT_LENGTH
                     THEN [length |-> len, group |-> "short"]
                     ELSE Seek(self, len, "lower", cnt)
                ELSE [length |-> len, group |-> "full"]
           [] stage = "lower" ->
                IF self.use_lowercase
                THEN [length |-> len, group |-> "lower"]
                ELSE Seek(self, len, "digits", cnt)
           [] stage = "digits" ->
                IF self.use_digits
                THEN [length |-> len, group |-> "digits"]
                ELSE Seek(self, len, "mixed", cnt)
           [] stage = "mixed" ->
                IF len >= 4 /\ self.use_lowercase /\ self.use_digits
                THEN [length |-> len, group |-> "mixed"]
                ELSE Seek(self, len + 1, "top", cnt)

\* mutant: after the full product of a length the structured passes of that
\* length run as well
AfterGroupFallsThrough(self, grp, len, cnt) ==
    CASE grp = "short"  -> Seek(self, len + 1, "top", cnt)
      [] grp = "full"   -> Seek(self, len, "lower", cnt)
      [] grp = "lower"  -> Seek(self, len, "digits", cnt)
      [] grp = "digits" -> Seek(self, len, "mixed", cnt)
      [] grp = "mixed"  -> Seek(self, len + 1, "top", cnt)

\* mutant: the mixed block is never reached
AfterGroupNoMixed(self, grp, len, cnt) ==
    IF grp = "lower" THEN Seek(self, len, "digits", cnt) ELSE Seek(self, len + 1, "top", cnt)

\* where control goes when the product loop of a group is exhausted
AfterGroup(self, grp, len, cnt) ==
    CASE grp = "short"  -> Seek(self, len + 1, "top", cnt)
      [] grp = "full"   -> Seek(self, len + 1, "top", cnt)
      [] grp = "lower"  -> Seek(self, len, "digits", cnt)
      [] grp = "digits" -> Seek(self, len, "mixed", cnt)
      [] grp = "mixed"  -> Seek(self, len + 1, "top", cnt)

\* mutant: the list survives from one call to the next
InitialListKept(previous) == previous
\* passwords = []
InitialList(previous) == <<>>

\* History of one generate_passwords call.  Both callbacks are supplied, as
\* PasswordGenerationThread.run supplies them.
CallsInit ==
    [progress         |-> <<>>,  \* progress_callback invocations: <<kind, count, total>>
     pattern          |-> <<>>,  \* pattern_callback invocations: <<kind, argument>>
     progress_stop_at |-> -1,    \* count when progress_callback first returned False
     pattern_stop_at  |-> -1,    \* count when pattern_callback first returned False
     groups           |-> <<>>]  \* product loops entered: [length, group, start]

\* progress_callback(cnt, te) was invoked and returned ok
ProgressCalled(c, kind, cnt, te, ok) ==
    [c EXCEPT !.progress = Append(@, <<kind, cnt, te>>),
              !.progress_stop_at = IF ~ok /\ @ = -1 THEN cnt ELSE @]

\* pattern_callback(arg) was invoked and returned ok
PatternCalled(c, kind, arg, cnt, ok) ==
    [c EXCEPT !.pattern = Append(@, <<kind, arg>>),
              !.pattern_stop_at = IF ~ok /\ @ = -1 THEN cnt ELSE @]

\* mutant: the end of the for over lengths reports nothing
EnteredNoFinal(c, next, cnt, te, label_ok, final_ok) ==
    IF next.group = "none"
    THEN c
    ELSE PatternCalled([c EXCEPT !.groups = Append(@, [length |-> next.length,
                                                        group  |-> next.group,
                                                        start  |-> cnt])],
                       "label", <<next.group, next.length>>, cnt, label_ok)

\* Control has reached next: either a product loop, whose block first calls
\* pattern_callback with the label of the group, or the end of the for over
\* lengths, followed by the final progress update.  Neither return value is
\* looked at by the code.
Entered(c, next, cnt, te, label_ok, final_ok) ==
    IF next.group = "none"
    THEN ProgressCalled(c, "end", cnt, te, final_ok)
    ELSE PatternCalled([c EXCEPT !.groups = Append(@, [length |-> next.length,
                                                        group  |-> next.group,
                                                        start  |-> cnt])],
                       "label", <<next.group, next.length>>, cnt, label_ok)

\* generate_passwords, from its entry to the first product loop; init_ok is
\* what the initial progress_callback(0, total_estimate) returns
GenCall ==
    /\ gen_pc = "idle"
    /\ \E init_ok \in BOOLEAN, label_ok \in BOOLEAN, final_ok \in BOOLEAN :
        LET te   == estimate_count(gen, ScaledClassSize)
            next == Seek(gen, gen.min_length, "top", 0)
        IN  /\ (next.group = "none" => label_ok) /\ (next.group # "none" => final_ok)
            /\ chars' = BuildChars(gen, ScaledAlphabet)
            /\ total_estimate' = te
            /\ passwords' = InitialList(passwords)
            /\ count' = 0
            /\ calls' = Entered(ProgressCalled(CallsInit, "initial", 0, te, init_ok),
                                next, 0, te, label_ok, final_ok)
            /\ progress_interval' = Max(1, Min(PROGRESS_MAX_INTERVAL, te \div PROGRESS_TICKS))
            /\ length' = next.length
            /\ group' = next.group
            /\ gen_k' = 0
            /\ gen_pc' = IF next.group = "none" THEN "done" ELSE "emit"
    /\ stop_req' = FALSE
    /\ UNCHANGED <<gen, run_no, first_result, est, searchVars, threadVars, appVars>>

\* one iteration of the running product loop: append, count, callbacks, cap.
\* progress_ok and pattern_ok are what the two callbacks return when this
\* iteration invokes them (False asks generate_passwords to stop); cap_ok,
\* label_ok and final_ok are the returns of the invocations whose result the
\* code does not look at: the progress update at the cap, the label of the
\* next group, and the final progress update.
Emit ==
    /\ gen_pc = "emit"
    /\ \E progress_ok \in BOOLEAN, pattern_ok \in BOOLEAN, cap_ok \in BOOLEAN,
          label_ok \in BOOLEAN, final_ok \in BOOLEAN :
        LET c        == count + 1
            password == GroupCandidate(gen, group, length, gen_k)
            progress == c % progress_interval = 0
            pattern  == c % (progress_interval * PATTERN_FACTOR) = 0
            stopped1 == progress /\ ~progress_ok
            stopped  == stopped1 \/ (pattern /\ ~pattern_ok)
            capped   == ReachesMax(c, gen.MAX_PASSWORDS)
            last     == gen_k + 1 = GroupSize(gen, group, length)
            next     == AfterGroup(gen, group, length, c)
            c1       == IF progress
                        THEN ProgressCalled(calls, "periodic", c, total_estimate, progress_ok)
                        ELSE calls
            c2       == IF pattern /\ ~stopped1
                        THEN PatternCalled(c1, "periodic", password, c, pattern_ok)
                        ELSE c1
        IN  /\ (~progress => progress_ok)
            /\ (~pattern \/ stopped1 => pattern_ok)
            /\ (stopped \/ ~capped => cap_ok)
            /\ (stopped \/ capped \/ ~last \/ next.group = "none" => label_ok)
            /\ (stopped \/ capped \/ ~last \/ next.group # "none" => final_ok)
            /\ passwords' = Append(passwords, password)
            /\ count' = c
            /\ stop_req' = stopped
            /\ IF stopped
               THEN /\ gen_pc' = "done"
                    /\ calls' = c2
                    /\ UNCHANGED <<length, group, gen_k>>
               ELSE IF capped
               THEN /\ gen_pc' = "done"
                    /\ calls' = ProgressCalled(c2, "cap", c, total_estimate, cap_ok)
                    /\ UNCHANGED <<length, group, gen_k>>
               ELSE IF last
               THEN /\ length' = next.length
                    /\ group' = next.group
                    /\ gen_k' = 0
                    /\ gen_pc' = IF next.group = "none" THEN "done" ELSE "emit"
                    /\ calls' = Entered(c2, next, c, total_estimate, label_ok, final_ok)
               ELSE /\ gen_k' = gen_k + 1
                    /\ calls' = c2
                    /\ UNCHANGED <<length, group, gen_pc>>
    /\ UNCHANGED <<gen, chars, total_estimate, progress_interval, run_no,
                   first_result, est, searchVars, threadVars, appVars>>

\* the caller keeps the returned list and calls generate_passwords again
\* on the same object
Rerun ==
    /\ gen_pc = "done"
    /\ run_no = 1
    /\ ~stop_req
    /\ first_result' = passwords
    /\ run_no' = 2
    /\ gen_pc' = "idle"
    /\ UNCHANGED <<gen, chars, total_estimate, progress_interval, length, group,
                   gen_k, count, passwords, stop_req, est, calls, searchVars, threadVars, appVars>>

\* a direct call of estimate_count() with the code's own class sizes
EstimateCall ==
    /\ est = -1
    /\ est' = estimate_count(gen, CLASS_SIZE)
    /\ UNCHANGED <<gen, gen_pc, chars, total_estimate, progress_interval, length,
                   group, gen_k, count, passwords, stop_req, run_no, first_result,
                   calls, searchVars, threadVars, appVars>>

\* the first lines of generate_passwords with the real alphabet
CharsetCall ==
    /\ chars = <<>>
    /\ chars' = BuildChars(gen, RealAlphabet)
    /\ UNCHANGED <<gen, gen_pc, total_estimate, progress_interval, length,
                   group, gen_k, count, passwords, stop_req, run_no, first_result,
                   est, calls, searchVars, threadVars, appVars>>

-----------------------------------------------------------------------------
(* Python float arithmetic (IEEE 754 binary64, round to nearest even) for
   the progress value int(end_batch / total * 100).  A positive float is
   [bits, exp]: MANTISSA_BITS bits, most significant first and leading bit
   1, read as 1.b2 b3 ... times 2^exp. *)

\* the precision of a Python float
MANTISSA_BITS == 53
\* the factor of the percentage
PERCENT == 100
\* quotient bits produced before rounding: the leading zeros of a quotient
\* of two list indices (below 2^30), the mantissa and the rounding bit
QUOTIENT_BITS == 31 + MANTISSA_BITS + 1

Zeros(n) == [k \in 1..n |-> 0]

\* the element of a set of one element; binding a name to the element of
\* {e} evaluates e once, where a LET would evaluate it at every use
Only(S) == CHOOSE e \in S : TRUE

\* the first n >= 1 bits after the binary point of r / b (0 <= r < b), and
\* the remainder left; the halves are computed one after the other to keep
\* the evaluation shallow
RECURSIVE DivBits(_, _, _)
DivBits(r, b, n) ==
    IF n = 1
    THEN IF 2 * r >= b THEN <<<<1>>, 2 * r - b>> ELSE <<<<0>>, 2 * r>>
    ELSE Only({Only({<<first[1] \o second[1], second[2]>> :
                         second \in {DivBits(first[2], b, n - n \div 2)}}) :
               first \in {DivBits(r, b, n \div 2)}})

\* the number of zeros before the first 1 of a bit string that has a 1
LeadingZeros(bits) ==
    (CHOOSE k \in 1..Len(bits) : bits[k] = 1 /\ \A l \in 1..(k - 1) : bits[l] = 0) - 1

\* bits + 1 for a bit string that has a 0: the last 0 becomes 1 and the
\* ones after it become 0
Increment(bits) ==
    LET last == CHOOSE k \in 1..Len(bits) :
                    bits[k] = 0 /\ \A l \in (k + 1)..Len(bits) : bits[l] = 1
    IN  SubSeq(bits, 1, last - 1) \o <<1>> \o Zeros(Len(bits) - last)

\* the sum of two bit strings of the same length n >= 1 and a carry, one bit
\* longer; the low half is added first and hands its carry to the high half
RECURSIVE AddBits(_, _, _)
AddBits(x, y, carry) ==
    IF Len(x) = 1
    THEN <<(x[1] + y[1] + carry) \div 2, (x[1] + y[1] + carry) % 2>>
    ELSE LET n    == Len(x)
             half == n \div 2
         IN  Only({AddBits(SubSeq(x, 1, half), SubSeq(y, 1, half), Head(low))
                       \o Tail(low) :
                   low \in {AddBits(SubSeq(x, half + 1, n), SubSeq(y, half + 1, n),
                                    carry)}})

\* the natural number a bit string of fewer than 31 bits stands for
RECURSIVE BitsValue(_)
BitsValue(bits) ==
    IF bits = <<>> THEN 0
    ELSE 2 * BitsValue(SubSeq(bits, 1, Len(bits) - 1)) + bits[Len(bits)]

\* bits (leading bit 1, more than MANTISSA_BITS of them) times 2^exp, with
\* sticky telling whether non-zero bits follow, rounded to nearest even
Rounded(bits, exp, sticky) ==
    LET mantissa == SubSeq(bits, 1, MANTISSA_BITS)
        round == bits[MANTISSA_BITS + 1]
        rest  == sticky \/ \E k \in (MANTISSA_BITS + 2)..Len(bits) : bits[k] = 1
        up    == round = 1 /\ (rest \/ mantissa[MANTISSA_BITS] = 1)
    IN  IF ~up THEN [bits |-> mantissa, exp |-> exp]
        ELSE IF \A k \in 1..MANTISSA_BITS : mantissa[k] = 1
             THEN [bits |-> <<1>> \o Zeros(MANTISSA_BITS - 1), exp |-> exp + 1]
             ELSE [bits |-> Increment(mantissa), exp |-> exp]

\* a / b as Python computes it, for integers 0 < a <= b
FloatDiv(a, b) ==
    IF a = b
    THEN [bits |-> <<1>> \o Zeros(MANTISSA_BITS - 1), exp |-> 0]
    ELSE Only({Only({Rounded(SubSeq(quotient[1], zeros + 1, QUOTIENT_BITS),
                             -(zeros + 1), quotient[2] # 0) :
                         zeros \in {LeadingZeros(quotient[1])}}) :
               quotient \in {DivBits(a, b, QUOTIENT_BITS)}})

\* x * 100 as Python computes it: 100 = 64 + 32 + 4
FloatTimes100(x) ==
    LET times64 == <<0>> \o x.bits \o Zeros(6)
        times32 == <<0, 0>> \o x.bits \o Zeros(5)
        times4  == <<0, 0, 0, 0, 0>> \o x.bits \o Zeros(2)
    IN  Only({Only({Only({Rounded(product, x.exp + Len(product) - MANTISSA_BITS,
                                  FALSE) :
                 product \in {SubSeq(sum, LeadingZeros(sum) + 1, Len(sum))}}) :
             sum \in {AddBits(times64, Tail(part), 0)}}) :
         part \in {AddBits(times32, times4, 0)}})

\* int(x) for a float 0 < x < 2^30
FloatInt(x) ==
    IF x.exp < 0 THEN 0 ELSE BitsValue(SubSeq(x.bits, 1, x.exp + 1))

\* int(end / tot * 100) computed in floating point, for 0 < end <= tot
FloatPercent(end, tot) ==
    Only({Only({FloatInt(percent) : percent \in {FloatTimes100(ratio)}}) :
          ratio \in {FloatDiv(end, tot)}})

\* run(): int((end_batch) / total * 100), for 0 < end <= tot < 2^24.  Where
\* end * 100 / tot is no integer it lies at least 1 / tot from the next
\* one, and the two roundings (the quotient, then the product, each within
\* 2^-53 of its value) move the result by less than 2^-46: int() then cuts
\* it to the integer quotient.  tot / tot is 1.0 and 1.0 * 100 is 100.0,
\* both exact.  Where end * 100 / tot is another integer the roundings
\* decide between that integer and the one below, and the floating-point
\* computation is carried out.
Percent(end, tot) ==
    IF end = tot
    THEN PERCENT
    ELSE IF (end * PERCENT) % tot # 0
         THEN (end * PERCENT) \div tot
         ELSE FloatPercent(end, tot)

-----------------------------------------------------------------------------
(* PasswordRecoveryThread *)

\* the candidate stored at (0-based) index x of self.password_list
Candidate(x) == password_list[x + 1]

total == Len(password_list)

Emitted(e) == events' = Append(events, e)

\* mutant: the exception handler reports success
try_password_fault_true(password, io_ok) == ~io_ok \/ password \in accepts

\* PDFPasswordRecovery.try_password: the result of reader.decrypt(password);
\* any exception while opening or parsing the file yields False
try_password(password, io_ok) == io_ok /\ password \in accepts

\* An access to a field of the thread object: by which thread, to which
\* field, read or write, and whether the statement lies between
\* self.mutex.lock() and self.mutex.unlock().
Access(thread, field, mode, locked) == <<thread, field, mode, locked>>

\* history: the accesses accs have just been made
Logged(h, accs) == IF h.tracing THEN [h EXCEPT !.accesses = @ \cup accs] ELSE h

\* run(): i = self.current_position, outside any lock
RunAccesses == {Access("worker", "current_position", "read", FALSE)}
\* mutant: check_cancelled() reads the flag without the mutex
CheckCancelledAccessesUnlocked == {Access("worker", "cancelled", "read", FALSE)}
\* check_cancelled(): lock; result = self.cancelled; unlock
CheckCancelledAccesses == {Access("worker", "cancelled", "read", TRUE)}
\* check_paused(): lock; if self.paused: ...; unlock
CheckPausedAccesses == {Access("worker", "paused", "read", TRUE)}
\* run(): self.current_position = j + 1, outside any lock
NextPositionAccesses == {Access("worker", "current_position", "write", FALSE)}
\* pause(), resume(): lock; self.paused = ...; unlock
PauseAccesses == {Access("driver", "paused", "write", TRUE)}
ResumeAccesses == {Access("driver", "paused", "write", TRUE)}
\* cancel(), called by the thread caller: lock; self.cancelled = True;
\* self.paused = False; unlock
CancelAccesses(caller) ==
    {Access(caller, "cancelled", "write", TRUE), Access(caller, "paused", "write", TRUE)}

\* run(): i = self.current_position
RunStart ==
    /\ pc = "start"
    /\ i' = current_position
    /\ pc' = "loop"
    /\ hist' = Logged(hist, RunAccesses)
    /\ UNCHANGED <<password_list, accepts, j, end_batch, current_position, paused,
                   cancelled, tested, events, genVars, threadVars, appVars>>

\* mutant: the loop gives up before the last candidate
LoopConditionShort(ii, tot) == ii + 1 < tot
\* mutant: only whole batches are processed
LoopConditionWholeBatch(ii, tot) == ii + BATCH_SIZE <= tot
\* the condition of "while i < total"
LoopCondition(ii, tot) == ii < tot

\* mutant: an exhausted list ends the run without a signal
LoopTestSilent ==
    /\ pc = "loop"
    /\ pc' = IF LoopCondition(i, total) THEN "check_cancelled" ELSE "done"
    /\ UNCHANGED <<password_list, accepts, i, j, end_batch, current_position, paused,
                   cancelled, tested, events, hist, genVars, threadVars, appVars>>

\* run(): while i < total ... else self.password_not_found.emit()
LoopTest ==
    /\ pc = "loop"
    /\ IF LoopCondition(i, total)
       THEN /\ pc' = "check_cancelled"
            /\ UNCHANGED events
       ELSE /\ pc' = "done"
            /\ Emitted(<<"password_not_found">>)
    /\ UNCHANGED <<password_list, accepts, i, j, end_batch, current_position, paused,
                   cancelled, tested, hist, genVars, threadVars, appVars>>

\* mutant: run() does not look at the flag
CheckCancelledNever ==
    /\ pc = "check_cancelled"
    /\ pc' = "check_paused"
    /\ UNCHANGED <<password_list, accepts, i, j, end_batch, current_position, paused,
                   cancelled, tested, events, hist, genVars, threadVars, appVars>>

\* run(): if self.check_cancelled(): return
CheckCancelled ==
    /\ pc = "check_cancelled"
    /\ pc' = IF cancelled THEN "done" ELSE "check_paused"
    /\ hist' = Logged(hist, CheckCancelledAccesses)
    /\ UNCHANGED <<password_list, accepts, i, j, end_batch, current_position, paused,
                   cancelled, tested, events, genVars, threadVars, appVars>>

\* mutant: the batch starts one past the cursor
BatchStartSkip(ii) == ii + 1
\* the first index of range(i, end_batch)
BatchStart(ii) == ii

\* run(): end_batch = min(i + batch_size, total); for j in range(i, end_batch)
EnterBatch ==
    /\ end_batch' = Min(i + BATCH_SIZE, total)
    /\ j' = BatchStart(i)
    /\ pc' = "batch"

\* check_paused(): lock; if paused, wait on resume_condition (releasing the mutex)
CheckPaused ==
    /\ pc = "check_paused"
    /\ IF paused
       THEN /\ pc' = "waiting"
            /\ hist' = Logged([hist EXCEPT !.gate_k = current_position,
                                           !.resumed = FALSE], CheckPausedAccesses)
            /\ UNCHANGED <<j, end_batch>>
       ELSE /\ EnterBatch
            /\ hist' = Logged(hist, CheckPausedAccesses)
    /\ UNCHANGED <<password_list, accepts, i, current_position, paused,
                   cancelled, tested, events, genVars, threadVars, appVars>>

\* check_paused(): wait() returns after wakeAll, the mutex is unlocked
Woken ==
    /\ pc = "woken"
    /\ EnterBatch
    /\ UNCHANGED <<password_list, accepts, i, current_position, paused,
                   cancelled, tested, events, hist, genVars, threadVars, appVars>>

\* mutant: the cursor jumps over the next candidate
NextPositionAhead(jj) == jj + 2
\* mutant: the cursor is left on the candidate just tested
NextPositionStale(jj) == jj
\* self.current_position = j + 1
NextPosition(jj) == jj + 1

\* run(): one iteration of the for over j
TryPassword ==
    /\ pc = "batch"
    /\ j < end_batch
    /\ \E io_ok \in BOOLEAN :
        LET password == Candidate(j)
            sampled  == IF j % SAMPLE_EVERY = 0
                        THEN Append(events, <<"current_password_update", password>>)
                        ELSE events
        IN  /\ (password \notin accepts => io_ok)
            /\ tested' = Append(tested, j)
            /\ hist' = Logged([hist EXCEPT !.io_fault = @ \/ ~io_ok,
                                           !.io_fault_at = IF io_ok THEN @ ELSE j],
                              IF try_password(password, io_ok)
                              THEN {} ELSE NextPositionAccesses)
            /\ IF try_password(password, io_ok)
               THEN /\ events' = Append(sampled, <<"password_found", password>>)
                    /\ pc' = "done"
                    /\ UNCHANGED <<j, current_position>>
               ELSE /\ events' = sampled
                    /\ current_position' = NextPosition(j)
                    /\ j' = j + 1
                    /\ pc' = IF j + 1 = end_batch THEN "after_batch" ELSE "batch"
    /\ UNCHANGED <<password_list, accepts, i, end_batch, paused, cancelled, genVars, threadVars, appVars>>

\* history: the number of candidates tested when cancel() first returns
Marked(mark) == IF hist.marking /\ mark = -1 THEN Len(tested) ELSE mark

\* history: method m of the thread has just been invoked
Called(h, m) ==
    IF h.tracing
    THEN [h EXCEPT !.last_call = m,
                   !.twice = IF h.last_call = m THEN @ \cup {m} ELSE @]
    ELSE h

\* mutant: cancel() flips the flag
CancelBodyToggle ==
    /\ cancelled' = ~cancelled
    /\ paused' = FALSE
    /\ pc' = IF pc = "waiting" THEN "woken" ELSE pc

\* mutant: cancel() sets the flag and forgets the blocked worker
CancelBodyNoWake ==
    /\ cancelled' = TRUE
    /\ UNCHANGED <<paused, pc>>

\* cancel(): lock; cancelled = True; paused = False; wakeAll; unlock
CancelBody ==
    /\ cancelled' = TRUE
    /\ paused' = FALSE
    /\ pc' = IF pc = "waiting" THEN "woken" ELSE pc

\* check_memory_usage(): memory_mb is the sampled resident size; no sample
\* (psutil missing or raising) is memory_mb = -1
MemoryWarning(memory_mb) == memory_mb >= 0 /\ memory_mb * 10 > MEMORY_LIMIT_MB * 8
MemoryCritical(memory_mb) == memory_mb >= 0 /\ memory_mb > MEMORY_LIMIT_MB

MemorySamples == {-1, 800, 801, 1000, 1001}

\* history: run() has called check_memory_usage() after the batch that
\* started at index at, and the call sampled memory_mb
Polled(h, at, memory_mb) ==
    IF h.polling THEN [h EXCEPT !.polls = Append(@, <<at, memory_mb>>)] ELSE h

\* run(): after the for over j: progress, memory check, i = end_batch
AfterBatch ==
    /\ pc = "after_batch"
    /\ \E memory_mb \in MemorySamples :
        LET progress == Percent(end_batch, total)
            ev1 == Append(events, <<"progress_update", progress>>)
            checked == i % MEMORY_CHECK_EVERY = 0
        IN  /\ (~checked \/ ~PSUTIL_AVAILABLE => memory_mb = -1)
            /\ events' = IF checked /\ MemoryWarning(memory_mb)
                         THEN Append(ev1, <<"memory_warning", memory_mb>>)
                         ELSE ev1
            /\ IF checked /\ MemoryCritical(memory_mb)
               THEN /\ cancelled' = TRUE
                    /\ paused' = FALSE
                    /\ hist' = Polled(Logged(Called([hist EXCEPT
                                                        !.cancel_mark = Marked(@)],
                                                    "check_memory_usage"),
                                             CancelAccesses("worker")),
                                      i, memory_mb)
               ELSE /\ hist' = IF checked THEN Polled(hist, i, memory_mb) ELSE hist
                    /\ UNCHANGED <<cancelled, paused>>
    /\ i' = end_batch
    /\ pc' = "loop"
    /\ UNCHANGED <<password_list, accepts, j, end_batch, current_position, tested,
                   genVars, threadVars, appVars>>

\* PasswordGenerationThread.check_memory_usage(): warning above 80% of the
\* limit, cancel() above 95% of it; no sample (PSUTIL_AVAILABLE false, or
\* psutil raising) is a negative memory_mb
GenMemoryWarning(memory_mb) == memory_mb >= 0 /\ memory_mb * 10 > MEMORY_LIMIT_MB * 8
GenMemoryCritical(memory_mb) == memory_mb >= 0 /\ memory_mb * 100 > MEMORY_LIMIT_MB * 95

\* samples around the thresholds; -1: psutil cannot be imported, -2: the
\* measurement raises
NO_PSUTIL == -1
PSUTIL_RAISES == -2
MemoryProbes ==
    {NO_PSUTIL, PSUTIL_RAISES, 0,
     (MEMORY_LIMIT_MB * 8) \div 10 - 1, (MEMORY_LIMIT_MB * 8) \div 10,
     (MEMORY_LIMIT_MB * 8) \div 10 + 1,
     (MEMORY_LIMIT_MB * 95) \div 100 - 1, (MEMORY_LIMIT_MB * 95) \div 100,
     (MEMORY_LIMIT_MB * 95) \div 100 + 1,
     MEMORY_LIMIT_MB - 1, MEMORY_LIMIT_MB, MEMORY_LIMIT_MB + 1}

\* the failures check_memory_usage() handles itself: "if not
\* PSUTIL_AVAILABLE: return" and "except Exception" in the generation thread,
\* "except ImportError" and "except Exception" in the search thread
GenCatches(memory_mb) == memory_mb = NO_PSUTIL \/ memory_mb = PSUTIL_RAISES
\* mutant: only the missing module is handled
RecoveryCatchesImportError(memory_mb) == memory_mb = NO_PSUTIL
RecoveryCatches(memory_mb) == memory_mb = NO_PSUTIL \/ memory_mb = PSUTIL_RAISES

\* what a direct check_memory_usage() call found and sampled, and whether an
\* exception left it
Checked(phase, memory_mb, c, p, raised) ==
    [phase |-> phase, sample |-> memory_mb, cancelled_before |-> c,
     paused_before |-> p, raised |-> raised]

\* PasswordGenerationThread.check_memory_usage() on a thread object
GenerationCheckMemory ==
    /\ mem.phase = "none"
    /\ \E memory_mb \in MemoryProbes :
        /\ memory_mb = NO_PSUTIL <=> ~PSUTIL_AVAILABLE
        /\ gt_events' = IF GenMemoryWarning(memory_mb)
                        THEN Append(gt_events, <<"memory_warning", memory_mb>>)
                        ELSE gt_events
        /\ gt_cancelled' = IF GenMemoryCritical(memory_mb) THEN TRUE ELSE gt_cancelled
        /\ mem' = Checked("generation", memory_mb, gt_cancelled, FALSE,
                          memory_mb < 0 /\ ~GenCatches(memory_mb))
    /\ UNCHANGED <<genVars, searchVars, appVars, gt_pc, gt_calls, PSUTIL_AVAILABLE>>

\* PasswordRecoveryThread.check_memory_usage() on a thread object
RecoveryCheckMemory ==
    /\ mem.phase = "none"
    /\ \E memory_mb \in MemoryProbes :
        /\ memory_mb = NO_PSUTIL <=> ~PSUTIL_AVAILABLE
        /\ events' = IF MemoryWarning(memory_mb)
                     THEN Append(events, <<"memory_warning", memory_mb>>)
                     ELSE events
        /\ IF MemoryCritical(memory_mb)
           THEN CancelBody
           ELSE UNCHANGED <<cancelled, paused, pc>>
        /\ mem' = Checked("search", memory_mb, cancelled, paused,
                          memory_mb < 0 /\ ~RecoveryCatches(memory_mb))
    /\ UNCHANGED <<password_list, accepts, i, j, end_batch, current_position,
                   tested, hist, genVars, gt_cancelled, gt_events, gt_pc, gt_calls,
                   appVars, PSUTIL_AVAILABLE>>

Running == pc \notin {"idle", "done"}

\* pause(): lock; paused = True; unlock
pause ==
    /\ Running
    /\ paused' = TRUE
    /\ hist' = Logged(Called([hist EXCEPT !.late_pause = @ \/ cancelled], "pause"),
                      PauseAccesses)
    /\ UNCHANGED <<password_list, accepts, pc, i, j, end_batch, current_position,
                   cancelled, tested, events, genVars, threadVars, appVars>>

\* resume(): lock; paused = False; wakeAll; unlock
resume ==
    /\ Running
    /\ paused' = FALSE
    /\ pc' = IF pc = "waiting" THEN "woken" ELSE pc
    /\ hist' = Logged(Called([hist EXCEPT !.resumed = @ \/ pc = "waiting"], "resume"),
                      ResumeAccesses)
    /\ UNCHANGED <<password_list, accepts, i, j, end_batch, current_position,
                   cancelled, tested, events, genVars, threadVars, appVars>>

\* cancel() invoked by the driving thread
cancel ==
    /\ Running
    /\ CancelBody
    /\ hist' = Logged(Called([hist EXCEPT
                  !.paused_at_cancel = @ \/ (paused /\ ~cancelled),
                  !.cancel_at_gate = @ \/ pc = "waiting",
                  !.cancel_mark = Marked(@),
                  !.mark_tested = IF pc = "waiting" /\ @ = -1 THEN Len(tested) ELSE @,
                  !.mark_events = IF pc = "waiting" /\ @ = -1 THEN Len(events) ELSE @],
                "cancel"), CancelAccesses("driver"))
    /\ UNCHANGED <<password_list, accepts, i, j, end_batch, current_position,
                   tested, events, genVars, threadVars, appVars>>

Worker == RunStart \/ LoopTest \/ CheckCancelled \/ CheckPaused \/ Woken
          \/ TryPassword \/ AfterBatch

-----------------------------------------------------------------------------
(* PDFPasswordRecoveryApp: the wizard, its two kinds of worker threads seen
   from the GUI thread, and the signals they queue for it.  A handler runs
   to completion in the GUI thread; a message box it opens in the middle
   (modal) blocks the user's input while queued signals are still
   delivered. *)

\* the last page of steps_widget (steps_widget.count() - 1)
LAST_STEP == 2

\* the file the user can pick in the file dialog; it may be a valid
\* encrypted PDF at one time and not at another
Paths == {"a.pdf"}

\* QThread.isRunning(): run() has not returned yet
IsRunning(t) == t.state # "finished"

RunningThreads(threads) == { n \in DOMAIN threads : IsRunning(threads[n]) }

\* the thread self.generation_thread / self.recovery_thread refers to
Current(threads) == Len(threads)

CurrentRunning(threads) ==
    threads # <<>> /\ IsRunning(threads[Current(threads)])

\* a signal emitted by a worker thread is queued for the GUI thread
Queued(sig) == signals' = Append(signals, sig)

\* the user can act on the main window
Interactive == ~aborted /\ modal = <<>>

\* a thread is created, within the bound of the exploration
Started == started < MaxStarts /\ started' = started + 1

\* the threads after self.<kind>_thread = t: the previous thread stays only
\* while it runs
WithNew(threads, t) == Append(SelectSeq(threads, IsRunning), t)

\* the threads after run() of thread n has returned: what is left of it, fin,
\* stays only while self.<kind>_thread refers to it
WithFinished(threads, n, fin) ==
    IF n = Len(threads)
    THEN [threads EXCEPT ![n] = fin]
    ELSE SubSeq(threads, 1, n - 1) \o SubSeq(threads, n + 1, Len(threads))

\* browse_pdf(): self.pdf_path after the closed warning
BrowseResult(file_path, is_valid) == IF is_valid THEN file_path ELSE "none"

\* browse_pdf(): the file dialog returned file_path, validate_pdf() returned
\* is_valid; on an invalid file the warning box is shown while self.pdf_path
\* still holds file_path
browse_pdf ==
    /\ Interactive
    /\ current_index = 0
    /\ \E file_path \in Paths, is_valid \in BOOLEAN :
        /\ pdf_path' = file_path
        /\ validated' = IF is_valid THEN validated \cup {file_path} ELSE validated
        /\ modal' = IF is_valid THEN modal ELSE Append(modal, <<"invalid_pdf", file_path>>)
    /\ UNCHANGED <<genVars, searchVars, threadVars, delivered, stale_dialog, started>>
    /\ UNCHANGED <<current_index, app_list, options, generation_threads,
                   recovery_threads, signals, buttons, is_recovery_paused,
                   progress_bar, aborted>>

\* the user closes the innermost message box and the handler that opened it
\* runs on: browse_pdf() resets self.pdf_path,
\* on_password_generation_failed() clears self.password_list
CloseMessageBox ==
    /\ ~aborted
    /\ modal # <<>>
    /\ LET box == modal[Len(modal)]
       IN  /\ modal' = SubSeq(modal, 1, Len(modal) - 1)
           /\ pdf_path' = IF box[1] = "invalid_pdf"
                          THEN BrowseResult(box[2], FALSE) ELSE pdf_path
           /\ app_list' = IF box[1] = "generation_failed" THEN "empty" ELSE app_list
    /\ UNCHANGED <<genVars, searchVars, threadVars, delivered, stale_dialog, started>>
    /\ UNCHANGED <<current_index, validated, options, generation_threads,
                   recovery_threads, signals, buttons, is_recovery_paused,
                   progress_bar, aborted>>

\* mutant: the acknowledgment survives the unchecking
ToggleDisclaimerKeep(checked) ==
    [options EXCEPT !.no_limit = checked, !.disclaimer_enabled = checked]
\* the no-limit box has been set to checked; toggle_disclaimer(checked)
ToggleDisclaimer(checked) ==
    [options EXCEPT !.no_limit = checked,
                    !.disclaimer_enabled = checked,
                    !.disclaimer = IF ~checked THEN FALSE ELSE @]

\* the user clicks the no-limit check box
toggle_no_limit ==
    /\ Interactive
    /\ current_index = 1
    /\ options' = ToggleDisclaimer(~options.no_limit)
    /\ UNCHANGED <<genVars, searchVars, threadVars, delivered, stale_dialog, started>>
    /\ UNCHANGED <<current_index, pdf_path, validated, modal, app_list,
                   generation_threads, recovery_threads, signals, buttons,
                   is_recovery_paused, progress_bar, aborted>>

\* the user clicks the disclaimer check box (possible only while it is enabled)
toggle_disclaimer_checkbox ==
    /\ Interactive
    /\ current_index = 1
    /\ options.disclaimer_enabled
    /\ options' = [options EXCEPT !.disclaimer = ~@]
    /\ UNCHANGED <<genVars, searchVars, threadVars, delivered, stale_dialog, started>>
    /\ UNCHANGED <<current_index, pdf_path, validated, modal, app_list,
                   generation_threads, recovery_threads, signals, buttons,
                   is_recovery_paused, progress_bar, aborted>>

\* mutant: the disclaimer is not looked at
NeedsDisclaimerNever(no_limit) == FALSE
\* go_to_next_step(): if no_limit and not disclaimer_checkbox.isChecked(): return
NeedsDisclaimer(no_limit) == no_limit /\ ~options.disclaimer

\* A thread whose run() has returned: isRunning() is false, and nothing reads
\* its other fields again; only its dialog may still be on the screen.  The
\* dialog of a thread that is no longer self.generation_thread is kept in
\* stale_dialog.
FinishedGeneration(t) ==
    [state |-> "finished", cancelled |-> FALSE, no_limit |-> FALSE,
     dialog |-> t.dialog, confirmed |-> FALSE]
FinishedRecovery == [state |-> "finished", cancelled |-> FALSE, paused |-> FALSE]

\* PasswordGenerationThread(...) as show_password_generation_dialog() creates
\* it, with the answer to the prompt kept as history
NewGenerationThread(no_limit, confirmed) ==
    [state     |-> "running",
     cancelled |-> FALSE,
     no_limit  |-> no_limit,
     dialog    |-> TRUE,          \* its generation_dialog is visible
     confirmed |-> confirmed]     \* history: the prompt was answered Yes

\* show_password_generation_dialog(): a new dialog, a new thread in
\* self.generation_thread, start().  The reference to the previous thread is
\* dropped: if that thread is still running, the runtime either aborts the
\* process (a QThread destroyed while running) or keeps it running.
show_password_generation_dialog(no_limit, confirmed) ==
    \/ /\ CurrentRunning(generation_threads)
       /\ aborted' = TRUE
       /\ UNCHANGED <<generation_threads, stale_dialog, started>>
    \/ /\ Started
       /\ generation_threads' =
              WithNew([n \in DOMAIN generation_threads |->
                          [generation_threads[n] EXCEPT !.dialog = FALSE]],
                      NewGenerationThread(no_limit, confirmed))
       /\ stale_dialog' = (stale_dialog \/ (generation_threads # <<>>
                             /\ generation_threads[Current(generation_threads)].dialog))
       /\ UNCHANGED aborted

\* go_to_next_step(): page 0 validates the file again, page 1 checks the
\* options and starts the generation without changing the page
go_to_next_step ==
    /\ Interactive
    /\ current_index < LAST_STEP
    /\ IF current_index = 0
       THEN /\ \E is_valid \in BOOLEAN :
                IF pdf_path # "none" /\ is_valid
                THEN /\ validated' = validated \cup {pdf_path}
                     /\ current_index' = current_index + 1
                ELSE UNCHANGED <<validated, current_index>>
            /\ UNCHANGED <<generation_threads, stale_dialog, started, aborted>>
       ELSE /\ \E options_ok \in BOOLEAN, confirm \in BOOLEAN :
                LET no_limit == options.no_limit
                IN  IF \/ ~options_ok
                       \/ NeedsDisclaimer(no_limit)
                       \/ (no_limit /\ ~confirm)
                    THEN UNCHANGED <<generation_threads, stale_dialog, started, aborted>>
                    ELSE show_password_generation_dialog(no_limit, no_limit /\ confirm)
            /\ UNCHANGED <<validated, current_index>>
    /\ UNCHANGED <<genVars, searchVars, threadVars, delivered>>
    /\ UNCHANGED <<pdf_path, modal, app_list, options, recovery_threads, signals,
                   buttons, is_recovery_paused, progress_bar>>

\* go_to_previous_step(); the button is enabled on every page but the first
go_to_previous_step ==
    /\ Interactive
    /\ current_index > 0
    /\ current_index' = current_index - 1
    /\ UNCHANGED <<genVars, searchVars, threadVars, delivered, stale_dialog, started>>
    /\ UNCHANGED <<pdf_path, validated, modal, app_list, options,
                   generation_threads, recovery_threads, signals, buttons,
                   is_recovery_paused, progress_bar, aborted>>

\* cancel_generation(), from the button of a visible generation dialog
cancel_generation ==
    /\ Interactive
    /\ \/ stale_dialog
       \/ \E n \in DOMAIN generation_threads : generation_threads[n].dialog
    /\ \E confirm \in BOOLEAN :
        generation_threads' =
            IF CurrentRunning(generation_threads) /\ confirm
            THEN [generation_threads EXCEPT ![Current(generation_threads)] =
                     [@ EXCEPT !.cancelled = TRUE, !.dialog = FALSE]]
            ELSE generation_threads
    /\ UNCHANGED <<genVars, searchVars, threadVars, delivered, stale_dialog, started>>
    /\ UNCHANGED <<current_index, pdf_path, validated, modal, app_list, options,
                   recovery_threads, signals, buttons, is_recovery_paused,
                   progress_bar, aborted>>

\* PasswordRecoveryThread(self.pdf_path, self.password_list, ...) as
\* start_password_recovery() creates it
NewRecoveryThread ==
    [state |-> "running", cancelled |-> FALSE, paused |-> FALSE]

\* start_password_recovery(): if not self.pdf_path or not self.password_list
MissingInformation == pdf_path = "none" \/ app_list = "empty"

\* start_password_recovery(): the checks, the buttons, a new thread in
\* self.recovery_thread, start()
start_password_recovery ==
    /\ Interactive
    /\ current_index = LAST_STEP
    /\ buttons.start
    /\ \E exists \in BOOLEAN :
        IF MissingInformation \/ ~exists
        THEN UNCHANGED <<buttons, progress_bar, recovery_threads,
                         is_recovery_paused, started, aborted>>
        ELSE /\ buttons' = [start |-> FALSE, pause |-> TRUE, cancel |-> TRUE]
             /\ progress_bar' = 0
             /\ \/ /\ CurrentRunning(recovery_threads)
                   /\ aborted' = TRUE
                   /\ UNCHANGED <<recovery_threads, is_recovery_paused, started>>
                \/ /\ Started
                   /\ recovery_threads' = WithNew(recovery_threads, NewRecoveryThread)
                   /\ is_recovery_paused' = FALSE
                   /\ UNCHANGED aborted
    /\ UNCHANGED <<genVars, searchVars, threadVars, delivered, stale_dialog>>
    /\ UNCHANGED <<current_index, pdf_path, validated, modal, app_list, options,
                   generation_threads, signals>>

\* toggle_pause_recovery(): resume() or pause() on self.recovery_thread
toggle_pause_recovery ==
    /\ Interactive
    /\ current_index = LAST_STEP
    /\ buttons.pause
    /\ IF ~CurrentRunning(recovery_threads)
       THEN UNCHANGED <<recovery_threads, is_recovery_paused>>
       ELSE /\ recovery_threads' =
                  [recovery_threads EXCEPT ![Current(recovery_threads)].paused =
                       ~is_recovery_paused]
            /\ is_recovery_paused' = ~is_recovery_paused
    /\ UNCHANGED <<genVars, searchVars, threadVars, delivered, stale_dialog, started>>
    /\ UNCHANGED <<current_index, pdf_path, validated, modal, app_list, options,
                   generation_threads, signals, buttons, progress_bar, aborted>>

\* cancel_recovery(): the buttons after self.recovery_thread.cancel()
ButtonsAfterCancel == [start |-> TRUE, pause |-> FALSE, cancel |-> FALSE]

\* cancel_recovery(): cancel() on self.recovery_thread, the start button is
\* enabled again at once
cancel_recovery ==
    /\ Interactive
    /\ current_index = LAST_STEP
    /\ buttons.cancel
    /\ \E confirm \in BOOLEAN :
        IF CurrentRunning(recovery_threads) /\ confirm
        THEN /\ recovery_threads' =
                   [recovery_threads EXCEPT ![Current(recovery_threads)] =
                        [@ EXCEPT !.cancelled = TRUE, !.paused = FALSE]]
             /\ buttons' = ButtonsAfterCancel
        ELSE UNCHANGED <<recovery_threads, buttons>>
    /\ UNCHANGED <<genVars, searchVars, threadVars, delivered, stale_dialog, started>>
    /\ UNCHANGED <<current_index, pdf_path, validated, modal, app_list, options,
                   generation_threads, signals, is_recovery_paused, progress_bar,
                   aborted>>

\* PasswordGenerationThread.run() of thread n returns from generate_passwords:
\* "if self.check_cancelled(): return", a cancellation by its own memory
\* check included
GenerationChecks(n) ==
    /\ generation_threads[n].state = "running"
    /\ \E memory_critical \in BOOLEAN :
        LET c == generation_threads[n].cancelled \/ memory_critical
        IN  generation_threads' =
                IF c
                THEN WithFinished(generation_threads, n,
                                  FinishedGeneration(generation_threads[n]))
                ELSE [generation_threads EXCEPT ![n].state = "ready"]
    /\ UNCHANGED signals

\* run(): self.password_list_ready.emit(password_list); the list is empty
\* when no product fitted the cap
GenerationDelivers(n) ==
    /\ generation_threads[n].state = "ready"
    /\ generation_threads' = WithFinished(generation_threads, n,
                                          FinishedGeneration(generation_threads[n]))
    /\ \E list \in {"empty", "nonempty"} : Queued(<<"password_list_ready", list>>)

\* run(): except Exception: self.generation_failed.emit(str(e))
GenerationFails(n) ==
    /\ generation_threads[n].state = "running"
    /\ generation_threads' = WithFinished(generation_threads, n,
                                          FinishedGeneration(generation_threads[n]))
    /\ Queued(<<"generation_failed", "none">>)

GenerationWorker ==
    /\ ~aborted
    /\ \E n \in DOMAIN generation_threads :
        GenerationChecks(n) \/ GenerationDelivers(n) \/ GenerationFails(n)
    /\ UNCHANGED <<genVars, searchVars, threadVars, delivered, stale_dialog, started>>
    /\ UNCHANGED <<current_index, pdf_path, validated, modal, app_list, options,
                   recovery_threads, buttons, is_recovery_paused, progress_bar,
                   aborted>>

\* PasswordRecoveryThread.run() of thread n ends: password_found,
\* password_not_found (the last batch is finished whatever the flags are), or
\* the silent return of check_cancelled()
RecoveryEnds(n) ==
    /\ recovery_threads[n].state = "running"
    /\ recovery_threads' = WithFinished(recovery_threads, n, FinishedRecovery)
    /\ \/ Queued(<<"password_found", "none">>)
       \/ Queued(<<"password_not_found", "none">>)
       \/ recovery_threads[n].cancelled /\ UNCHANGED signals

\* run(): check_memory_usage() finds the limit exceeded: self.cancel()
RecoveryMemoryCritical(n) ==
    /\ recovery_threads[n].state = "running"
    /\ ~recovery_threads[n].cancelled
    /\ recovery_threads' = [recovery_threads EXCEPT ![n] =
                               [@ EXCEPT !.cancelled = TRUE, !.paused = FALSE]]
    /\ UNCHANGED signals

RecoveryWorker ==
    /\ ~aborted
    /\ \E n \in DOMAIN recovery_threads :
        RecoveryEnds(n) \/ RecoveryMemoryCritical(n)
    /\ UNCHANGED <<genVars, searchVars, threadVars, delivered, stale_dialog, started>>
    /\ UNCHANGED <<current_index, pdf_path, validated, modal, app_list, options,
                   generation_threads, buttons, is_recovery_paused, progress_bar,
                   aborted>>

\* self.generation_dialog.accept() / reject(): the newest dialog is closed
DialogClosed ==
    IF generation_threads = <<>>
    THEN generation_threads
    ELSE [generation_threads EXCEPT ![Current(generation_threads)].dialog = FALSE]

\* on_password_generation_complete(password_list).  os.path.basename(self.pdf_path) raises when no file is
\* selected: the exception leaves the slot, and the runtime either aborts the
\* process or reports it and goes on.
on_password_generation_complete(list) ==
    /\ app_list' = list
    /\ generation_threads' = DialogClosed
    /\ IF pdf_path = "none"
       THEN /\ aborted' \in BOOLEAN
            /\ UNCHANGED current_index
       ELSE /\ current_index' = IF current_index < LAST_STEP
                                THEN current_index + 1 ELSE current_index
            /\ UNCHANGED aborted
    /\ UNCHANGED <<modal, buttons, progress_bar>>

\* on_password_generation_failed(error_message): the error box is shown
\* before self.password_list is cleared
on_password_generation_failed ==
    /\ generation_threads' = DialogClosed
    /\ modal' = Append(modal, <<"generation_failed", "none">>)
    /\ UNCHANGED <<app_list, current_index, aborted, buttons, progress_bar>>

\* update_progress(value)
update_progress(value) ==
    /\ progress_bar' = value
    /\ UNCHANGED <<buttons, app_list, generation_threads, current_index, aborted, modal>>

\* mutant: the bar is left where the last progress signal put it
on_password_found_bar_kept ==
    /\ buttons' = [start |-> TRUE, pause |-> FALSE, cancel |-> FALSE]
    /\ UNCHANGED <<progress_bar, app_list, generation_threads, current_index,
                   aborted, modal>>

\* on_password_found(password) and on_password_not_found()
on_password_found ==
    /\ progress_bar' = 100
    /\ buttons' = [start |-> TRUE, pause |-> FALSE, cancel |-> FALSE]
    /\ UNCHANGED <<app_list, generation_threads, current_index, aborted, modal>>

on_password_not_found ==
    /\ progress_bar' = 100
    /\ buttons' = [start |-> TRUE, pause |-> FALSE, cancel |-> FALSE]
    /\ UNCHANGED <<app_list, generation_threads, current_index, aborted, modal>>

\* the GUI thread's event loop (also the one a message box runs) delivers
\* the oldest queued signal to its slot
DeliverSignal ==
    /\ ~aborted
    /\ signals # <<>>
    /\ signals' = Tail(signals)
    /\ LET sig == Head(signals)
       IN  CASE sig[1] = "password_list_ready" -> on_password_generation_complete(sig[2])
             [] sig[1] = "generation_failed"   -> on_password_generation_failed
             [] sig[1] = "password_found"      -> on_password_found
             [] sig[1] = "password_not_found"  -> on_password_not_found
    /\ UNCHANGED <<genVars, searchVars, threadVars, delivered, stale_dialog, started>>
    /\ UNCHANGED <<pdf_path, validated, options, recovery_threads,
                   is_recovery_paused>>

\* the GUI thread delivers the next signal of the search thread modelled by
\* run() above to the slot start_password_recovery() connected it to; the
\* slots of current_password_update and memory_warning only set labels
DeliverEvent ==
    /\ delivered < Len(events)
    /\ delivered' = delivered + 1
    /\ LET sig == events[delivered + 1]
       IN  CASE sig[1] = "progress_update"    -> update_progress(sig[2])
             [] sig[1] = "password_found"     -> on_password_found
             [] sig[1] = "password_not_found" -> on_password_not_found
             [] OTHER -> UNCHANGED <<progress_bar, buttons, app_list,
                                     generation_threads, current_index, aborted, modal>>
    /\ UNCHANGED <<pdf_path, validated, options, recovery_threads, stale_dialog,
                   started, signals, is_recovery_paused>>
    /\ UNCHANGED <<genVars, searchVars, threadVars>>

-----------------------------------------------------------------------------
(* PasswordGenerationThread.run() in detail, for one thread whose policy the
   cap cuts (total_estimate = 1,000,000): generate_passwords is seen through
   the callbacks it invokes, and the signals reach the wizard through
   DeliverGenerationEvent. *)

\* progress_callback: "if count % 10000 == 0"
GENERATION_MEMORY_EVERY == 10000
\* progress_callback: min(..., 99)
MAX_SHOWN == 99
\* run(): "if len(password_list) > 100000"
LARGE_LIST == 100000
\* the structured pass of length 4 over lowercase alone (26^4 strings), with
\* which a capped policy of lowercase and uppercase ends below the cap
LOWERCASE_PASS == CLASS_SIZE.lower ^ 4

\* the total generate_passwords passes to progress_callback
GenerationTotal == MAX_PASSWORDS_LIMIT

\* the invocations generate_passwords makes: which callback, at which place
\* of its code, and with which count
ProgressKinds == {"initial", "periodic", "cap", "end"}
PatternKinds == {"label", "periodic"}
CallbackCounts(kind) ==
    CASE kind = "initial"  -> {0}
      [] kind = "periodic" -> {GENERATION_MEMORY_EVERY}
      [] kind = "label"    -> {0, GENERATION_MEMORY_EVERY}
      [] kind = "cap"      -> {MAX_PASSWORDS_LIMIT}
      [] kind = "end"      -> {0, LOWERCASE_PASS}

\* samples of the generation thread's memory check: none, below the warning,
\* warning, critical
GenerationSamples == {NO_PSUTIL, 800, 801, 951}

\* generate_passwords looks at what the invocation returns
Heeded(kind) == kind = "periodic"
\* generate_passwords returns right after the invocation
Final(kind) == kind \in {"cap", "end"}

\* progress_callback: min(int((count / total) * 100), 99)
GenerationProgress(cnt, tot) == Min(IF cnt = 0 THEN 0 ELSE Percent(cnt, tot), MAX_SHOWN)

\* history: an invocation and what it returned
Invoked(callback, kind, cnt, returned) == <<callback, kind, cnt, returned>>

\* the thread object's isRunning()
GenerationIsRunning == gt_pc \in {"start", "generating", "returned", "ready"}

\* run(): the generator is created, progress_update.emit(0),
\* generate_passwords is entered
GenerationRunStart ==
    /\ gt_pc = "start"
    /\ gt_events' = Append(gt_events, <<"progress_update", 0>>)
    /\ gt_pc' = "generating"
    /\ UNCHANGED <<gt_cancelled, gt_calls>>

\* where run() is after an invocation of kind returned
AfterInvocation(kind, returned) ==
    IF Final(kind) \/ (Heeded(kind) /\ ~returned) THEN "returned" ELSE "generating"

\* progress_callback(count, total), invoked by generate_passwords
progress_callback ==
    /\ gt_pc = "generating"
    /\ Len(gt_calls) < MaxCallbacks
    /\ \E kind \in ProgressKinds :
        /\ kind = "initial" <=> gt_calls = <<>>
        /\ Len(gt_calls) + 1 < MaxCallbacks \/ Final(kind)
        /\ \E cnt \in CallbackCounts(kind), memory_mb \in GenerationSamples :
            LET checked == ~gt_cancelled /\ cnt % GENERATION_MEMORY_EVERY = 0
                warned  == IF checked /\ GenMemoryWarning(memory_mb)
                           THEN Append(gt_events, <<"memory_warning", memory_mb>>)
                           ELSE gt_events
            IN  /\ memory_mb = NO_PSUTIL <=> (~checked \/ ~PSUTIL_AVAILABLE)
                /\ gt_calls' = Append(gt_calls, Invoked("progress", kind, cnt, ~gt_cancelled))
                /\ gt_pc' = AfterInvocation(kind, ~gt_cancelled)
                /\ IF gt_cancelled
                   THEN UNCHANGED <<gt_events, gt_cancelled>>
                   ELSE /\ gt_cancelled' = (checked /\ GenMemoryCritical(memory_mb))
                        /\ gt_events' = Append(warned,
                               <<"progress_update", GenerationProgress(cnt, GenerationTotal)>>)

\* pattern_callback(pattern), invoked by generate_passwords
pattern_callback ==
    /\ gt_pc = "generating"
    /\ gt_calls # <<>>
    /\ Len(gt_calls) + 1 < MaxCallbacks
    /\ \E kind \in PatternKinds :
        \E cnt \in CallbackCounts(kind) :
            /\ gt_calls' = Append(gt_calls, Invoked("pattern", kind, cnt, ~gt_cancelled))
            /\ gt_pc' = AfterInvocation(kind, ~gt_cancelled)
            /\ gt_events' = IF gt_cancelled
                            THEN gt_events
                            ELSE Append(gt_events, <<"current_pattern_update", kind>>)
    /\ UNCHANGED gt_cancelled

\* len(password_list) when generate_passwords has returned: the count of
\* its last invocation
ListLength == gt_calls[Len(gt_calls)][3]

\* run(): "if self.check_cancelled(): return", then the signals and the
\* pauses for a list of more than 100000 entries
GenerationCheck ==
    /\ gt_pc = "returned"
    /\ gt_pc' = IF gt_cancelled THEN "done" ELSE "ready"
    /\ gt_events' =
          IF ~gt_cancelled /\ ListLength > LARGE_LIST
          THEN gt_events \o << <<"progress_update", MAX_SHOWN>>,
                               <<"current_pattern_update", "processing">>,
                               <<"processing_large_list", ListLength>> >>
          ELSE gt_events
    /\ UNCHANGED <<gt_cancelled, gt_calls>>

\* run(): progress_update.emit(100); password_list_ready.emit(password_list)
GenerationDelivery ==
    /\ gt_pc = "ready"
    /\ gt_pc' = "done"
    /\ gt_events' = gt_events \o << <<"progress_update", PERCENT>>,
                                    <<"password_list_ready",
                                      IF ListLength = 0 THEN "empty" ELSE "nonempty">> >>
    /\ UNCHANGED <<gt_cancelled, gt_calls>>

\* run(): "except Exception": an exception raised while the list is built
\* (MemoryError for one) ends run() with generation_failed
GenerationFailure ==
    /\ gt_pc \in {"start", "generating"}
    /\ gt_pc' = "done"
    /\ gt_events' = Append(gt_events, <<"generation_failed", "none">>)
    /\ UNCHANGED <<gt_cancelled, gt_calls>>

GenerationRun ==
    /\ ~aborted
    /\ \/ GenerationRunStart
       \/ progress_callback
       \/ pattern_callback
       \/ GenerationCheck
       \/ GenerationDelivery
       \/ GenerationFailure
    /\ UNCHANGED <<genVars, searchVars, appVars, mem, PSUTIL_AVAILABLE>>

\* cancel_generation() from the button of the dialog: isRunning(), the
\* question, self.generation_thread.cancel(), generation_dialog.reject()
CancelGeneration ==
    /\ Interactive
    /\ generation_threads[Current(generation_threads)].dialog
    /\ \E confirm \in BOOLEAN :
        IF GenerationIsRunning /\ confirm
        THEN /\ gt_cancelled' = TRUE
             /\ generation_threads' =
                    [generation_threads EXCEPT ![Current(generation_threads)] =
                        [@ EXCEPT !.cancelled = TRUE, !.dialog = FALSE]]
        ELSE UNCHANGED <<gt_cancelled, generation_threads>>
    /\ UNCHANGED <<genVars, searchVars, gt_events, gt_pc, gt_calls, mem, PSUTIL_AVAILABLE,
                   delivered, stale_dialog, started>>
    /\ UNCHANGED <<current_index, pdf_path, validated, modal, app_list, options,
                   recovery_threads, signals, buttons, is_recovery_paused,
                   progress_bar, aborted>>

\* the GUI thread delivers the next signal of the generation thread modelled
\* by GenerationRun to the slot show_password_generation_dialog() connected
\* it to; the slots of progress_update, current_pattern_update,
\* memory_warning and processing_large_list only set widgets of the dialog
DeliverGenerationEvent ==
    /\ ~aborted
    /\ delivered < Len(gt_events)
    /\ delivered' = delivered + 1
    /\ LET sig == gt_events[delivered + 1]
       IN  CASE sig[1] = "password_list_ready" -> on_password_generation_complete(sig[2])
             [] sig[1] = "generation_failed"   -> on_password_generation_failed
             [] OTHER -> UNCHANGED <<progress_bar, buttons, app_list,
                                     generation_threads, current_index, aborted, modal>>
    /\ UNCHANGED <<pdf_path, validated, options, recovery_threads, stale_dialog,
                   started, signals, is_recovery_paused>>
    /\ UNCHANGED <<genVars, searchVars, threadVars>>

-----------------------------------------------------------------------------
(* Initial states *)

Flags == BOOLEAN \X BOOLEAN \X BOOLEAN \X BOOLEAN

GenIdle ==
    /\ gen_pc = "idle"
    /\ chars = <<>>
    /\ total_estimate = 0
    /\ progress_interval = 1
    /\ length = 0
    /\ group = "none"
    /\ gen_k = 0
    /\ count = 0
    /\ passwords = <<>>
    /\ stop_req = FALSE
    /\ run_no = 1
    /\ first_result = <<>>
    /\ est = -1
    /\ calls = CallsInit

\* no generation thread, no direct memory check yet
ThreadIdle ==
    /\ gt_cancelled = FALSE
    /\ gt_events = <<>>
    /\ gt_pc = "idle"
    /\ gt_calls = <<>>
    /\ mem = Checked("none", NO_PSUTIL, FALSE, FALSE, FALSE)
    /\ PSUTIL_AVAILABLE = TRUE

\* PDFPasswordRecoveryApp after __init__ / init_ui(): first page, no file, no
\* list, no thread, both check boxes clear and the disclaimer disabled, only
\* the start button enabled
AppIdle ==
    /\ current_index = 0
    /\ pdf_path = "none"
    /\ validated = {}
    /\ modal = <<>>
    /\ app_list = "empty"
    /\ options = [no_limit |-> FALSE, disclaimer |-> FALSE, disclaimer_enabled |-> FALSE]
    /\ generation_threads = <<>>
    /\ recovery_threads = <<>>
    /\ stale_dialog = FALSE
    /\ started = 0
    /\ signals = <<>>
    /\ delivered = 0
    /\ buttons = [start |-> TRUE, pause |-> FALSE, cancel |-> FALSE]
    /\ is_recovery_paused = FALSE
    /\ progress_bar = 0
    /\ aborted = FALSE

\* history of the driver's calls and of the gate, kept for the properties
HistInit ==
    [gate_k           |-> -1,     \* cursor when the worker last blocked at the gate
     resumed          |-> FALSE,  \* resume() has released the blocked worker
     paused_at_cancel |-> FALSE,  \* cancel() was invoked while paused was set
     cancel_at_gate   |-> FALSE,  \* cancel() was invoked while the worker was blocked
     mark_tested      |-> -1,     \* Len(tested) at that cancel()
     mark_events      |-> -1,     \* Len(events) at that cancel()
     late_pause       |-> FALSE,  \* pause() was invoked after cancel()
     io_fault         |-> FALSE,  \* try_password failed on a candidate decrypt() accepts
     io_fault_at      |-> -1,     \* index of the last candidate it failed on
     marking          |-> FALSE,  \* cancel_mark is kept (SpecCancel only)
     cancel_mark      |-> -1,     \* Len(tested) when cancel() first returned
     tracing          |-> FALSE,  \* last_call, twice, accesses are kept (SpecCalls only)
     accesses         |-> {},     \* the accesses to the shared fields made so far
     last_call        |-> "none", \* the last method that wrote paused or cancelled
     twice            |-> {},     \* the methods invoked twice in a row so far
     polling          |-> FALSE,  \* polls is kept (SpecPolls only)
     polls            |-> <<>>]   \* the check_memory_usage() calls of run(): <<i, sample>>

SearchIdle ==
    /\ password_list = <<>>
    /\ accepts = {}
    /\ pc = "idle"
    /\ i = 0
    /\ j = 0
    /\ end_batch = 0
    /\ current_position = 0
    /\ paused = FALSE
    /\ cancelled = FALSE
    /\ tested = <<>>
    /\ events = <<>>
    /\ hist = HistInit

\* policies of the scaled enumeration
ScaledPolicies ==
    { PasswordGenerator(lo, hi, f[1], f[2], f[3], f[4], nl, ScaledLimit) :
        lo \in 1..MaxLength, hi \in 1..MaxLength, f \in Flags, nl \in BOOLEAN }

InitGen ==
    /\ gen \in { g \in ScaledPolicies :
                   /\ g.min_length <= g.max_length
                   /\ g.MAX_PASSWORDS = INF
                        => estimate_count(g, ScaledClassSize) <= MaxUnlimitedTotal }
    /\ GenIdle
    /\ ThreadIdle
    /\ AppIdle
    /\ SearchIdle

NextGen == GenCall \/ Emit \/ Rerun

Spec == InitGen /\ [][NextGen]_vars

\* Policies whose lengths all lie above 3, where the cap relates only to the
\* products of one length: with the smaller cap no product of length 4 fits
\* (34^4 > 1,000,000 for uppercase + special in the code), with the larger
\* one the lowercase, digit and mixed passes of length 4 fit together while
\* the product over both classes does not (26^4 + 10^4 + 26^2 * 10^2 <=
\* 1,000,000 < 36^4 in the code).
FallbackPolicies ==
    { PasswordGenerator(lo, hi, f[1], f[2], f[3], f[4], FALSE, limit) :
        lo \in (SHORT_LENGTH + 1)..MaxLength, hi \in (SHORT_LENGTH + 1)..MaxLength,
        f \in Flags, limit \in {SmallFallbackLimit, LargeFallbackLimit} }

InitFallback ==
    /\ gen \in { g \in FallbackPolicies : g.min_length <= g.max_length }
    /\ GenIdle
    /\ ThreadIdle
    /\ AppIdle
    /\ SearchIdle

SpecFallback == InitFallback /\ [][NextGen]_vars

\* policies with the real class sizes and the real cap
RealPolicies ==
    { PasswordGenerator(lo, hi, f[1], f[2], f[3], f[4], nl, MAX_PASSWORDS_LIMIT) :
        lo \in 1..MaxLength, hi \in 1..MaxLength, f \in Flags, nl \in BOOLEAN }

InitEstimate ==
    /\ gen \in { g \in RealPolicies : g.min_length <= g.max_length }
    /\ GenIdle
    /\ ThreadIdle
    /\ AppIdle
    /\ SearchIdle

NextEstimate == EstimateCall \/ CharsetCall

SpecEstimate == InitEstimate /\ [][NextEstimate]_vars

\* a list long enough for the worker to poll the memory several times
LongListLength == 5000

\* candidate lists: n distinct candidates
ListLengths == {1, BATCH_SIZE, BATCH_SIZE + 1, MaxTotal}
CandidateList(n) == [x \in 1..n |-> 1000 + x]

\* what decrypt() accepts: nothing, a password that is not in the list (1000),
\* one candidate of the list, or two (the user and the owner password)
AcceptChoices(n) ==
    LET at == { x \in {1, 2, BATCH_SIZE, BATCH_SIZE + 1, n} : x <= n }
    IN  {{}, {1000}} \cup { {1000 + x} : x \in at }
             \cup { {1000 + x, 1000 + n} : x \in {BATCH_SIZE + 1} \cap 1..(n - 1) }

InitSearch ==
    /\ \E n \in ListLengths :
        /\ password_list = CandidateList(n)
        /\ accepts \in AcceptChoices(n)
    /\ pc = "start"
    /\ i = 0
    /\ j = 0
    /\ end_batch = 0
    /\ current_position = 0
    /\ paused = FALSE
    /\ cancelled = FALSE
    /\ tested = <<>>
    /\ events = <<>>
    /\ hist = HistInit
    /\ gen = PasswordGenerator(1, 1, TRUE, FALSE, FALSE, FALSE, FALSE, ScaledLimit)
    /\ GenIdle
    /\ ThreadIdle
    /\ AppIdle

NextSearch == Worker \/ pause \/ resume \/ cancel

\* a list on which the worker polls the memory twice
PollListLength == 1100

\* A search over such a list, with the driver's calls and psutil at hand;
\* the polls are recorded.
InitPolls ==
    /\ password_list = CandidateList(PollListLength)
    /\ accepts = {}
    /\ pc = "start"
    /\ i = 0
    /\ j = 0
    /\ end_batch = 0
    /\ current_position = 0
    /\ paused = FALSE
    /\ cancelled = FALSE
    /\ tested = <<>>
    /\ events = <<>>
    /\ hist = [HistInit EXCEPT !.polling = TRUE]
    /\ gen = PasswordGenerator(1, 1, TRUE, FALSE, FALSE, FALSE, FALSE, ScaledLimit)
    /\ GenIdle
    /\ ThreadIdle
    /\ AppIdle

SpecPolls == InitPolls /\ [][NextSearch]_vars

\* A worker left alone on a long list that holds no accepted password, in a
\* process without psutil.
InitLongList ==
    /\ password_list = CandidateList(LongListLength)
    /\ accepts = {}
    /\ pc = "start"
    /\ i = 0
    /\ j = 0
    /\ end_batch = 0
    /\ current_position = 0
    /\ paused = FALSE
    /\ cancelled = FALSE
    /\ tested = <<>>
    /\ events = <<>>
    /\ hist = HistInit
    /\ gen = PasswordGenerator(1, 1, TRUE, FALSE, FALSE, FALSE, FALSE, ScaledLimit)
    /\ GenIdle
    /\ gt_cancelled = FALSE
    /\ gt_events = <<>>
    /\ gt_pc = "idle"
    /\ gt_calls = <<>>
    /\ mem = Checked("none", NO_PSUTIL, FALSE, FALSE, FALSE)
    /\ PSUTIL_AVAILABLE = FALSE
    /\ AppIdle

NextLongList == RunStart \/ LoopTest \/ CheckCancelled \/ CheckPaused
                \/ TryPassword \/ AfterBatch

SpecLongList == InitLongList /\ [][NextLongList]_vars

\* the batches the worker of SpecLongList may have behind it when it is
\* first looked at
ObservedFrom == 29

\* run(): what the worker has emitted when the for loop of its b-th whole
\* batch ends, no candidate being accepted and no memory sample taken: per
\* batch one current_password_update for every tenth index, then the
\* progress of the batch
EventsInBatch(b) ==
    LET per_batch == BATCH_SIZE \div SAMPLE_EVERY + 1
    IN  [e \in 1..(b * per_batch - 1) |->
            IF e % per_batch # 0
            THEN <<"current_password_update",
                   Candidate(((e - 1) \div per_batch) * BATCH_SIZE
                             + ((e - 1) % per_batch) * SAMPLE_EVERY)>>
            ELSE <<"progress_update", Percent((e \div per_batch) * BATCH_SIZE, total)>>]

\* the worker of SpecLongList at the end of the for loop of its b-th batch
AtBatchEnd(b) ==
    /\ pc = "after_batch"
    /\ i = (b - 1) * BATCH_SIZE
    /\ j = b * BATCH_SIZE
    /\ end_batch = b * BATCH_SIZE
    /\ current_position = b * BATCH_SIZE
    /\ tested = [x \in 1..(b * BATCH_SIZE) |-> x - 1]
    /\ events = EventsInBatch(b)

\* The same worker, looked at from the end of one of its first batches on.
InitBatchEnd ==
    /\ password_list = CandidateList(LongListLength)
    /\ accepts = {}
    /\ \E b \in 1..ObservedFrom : AtBatchEnd(b)
    /\ paused = FALSE
    /\ cancelled = FALSE
    /\ hist = HistInit
    /\ gen = PasswordGenerator(1, 1, TRUE, FALSE, FALSE, FALSE, FALSE, ScaledLimit)
    /\ GenIdle
    /\ gt_cancelled = FALSE
    /\ gt_events = <<>>
    /\ gt_pc = "idle"
    /\ gt_calls = <<>>
    /\ mem = Checked("none", NO_PSUTIL, FALSE, FALSE, FALSE)
    /\ PSUTIL_AVAILABLE = FALSE
    /\ AppIdle

NextBatchEnd == LoopTest \/ CheckCancelled \/ CheckPaused \/ TryPassword \/ AfterBatch

SpecBatchEnd == InitBatchEnd /\ [][NextBatchEnd]_vars

SpecSearch == InitSearch /\ [][NextSearch]_vars

\* the worker thread is scheduled as long as it is not blocked
FairSpecSearch == SpecSearch /\ WF_vars(Worker)

\* The search over a list of one batch and one candidate more, nothing
\* accepted or only the last candidate, with the number of candidates tested
\* at the first cancel() kept in the history.
InitCancel ==
    /\ \E n \in {BATCH_SIZE + 1} :
        /\ password_list = CandidateList(n)
        /\ accepts \in {{}, {1000 + n}}
    /\ pc = "start"
    /\ i = 0
    /\ j = 0
    /\ end_batch = 0
    /\ current_position = 0
    /\ paused = FALSE
    /\ cancelled = FALSE
    /\ tested = <<>>
    /\ events = <<>>
    /\ hist = [HistInit EXCEPT !.marking = TRUE]
    /\ gen = PasswordGenerator(1, 1, TRUE, FALSE, FALSE, FALSE, FALSE, ScaledLimit)
    /\ GenIdle
    /\ ThreadIdle
    /\ AppIdle

SpecCancel == InitCancel /\ [][NextSearch]_vars

FairSpecCancel == SpecCancel /\ WF_vars(Worker)

\* The search over a short list with the driver's calls traced: which method
\* wrote the flags last, and which methods were invoked twice in a row.
InitCalls ==
    /\ \E n \in 1..CallsListLength :
        /\ password_list = CandidateList(n)
        /\ accepts \in {{}, {1000 + n}}
    /\ pc = "start"
    /\ i = 0
    /\ j = 0
    /\ end_batch = 0
    /\ current_position = 0
    /\ paused = FALSE
    /\ cancelled = FALSE
    /\ tested = <<>>
    /\ events = <<>>
    /\ hist = [HistInit EXCEPT !.tracing = TRUE]
    /\ gen = PasswordGenerator(1, 1, TRUE, FALSE, FALSE, FALSE, FALSE, ScaledLimit)
    /\ GenIdle
    /\ ThreadIdle
    /\ AppIdle

SpecCalls == InitCalls /\ [][NextSearch]_vars

\* The two thread objects at the moment their worker calls
\* check_memory_usage(): cancel() and pause() may have been invoked on them
\* since the worker last looked (pause() exists on the search thread only).
InitMemory ==
    /\ gen = PasswordGenerator(1, 1, TRUE, FALSE, FALSE, FALSE, FALSE, ScaledLimit)
    /\ GenIdle
    /\ password_list = CandidateList(1)
    /\ accepts = {}
    /\ pc = "after_batch"
    /\ i = 0
    /\ j = 1
    /\ end_batch = 1
    /\ current_position = 1
    /\ paused \in BOOLEAN
    /\ cancelled \in BOOLEAN
    /\ tested = <<0>>
    /\ events = <<>>
    /\ hist = HistInit
    /\ gt_cancelled \in BOOLEAN
    /\ gt_events = <<>>
    /\ gt_pc = "idle"
    /\ gt_calls = <<>>
    /\ mem = Checked("none", NO_PSUTIL, FALSE, FALSE, FALSE)
    /\ PSUTIL_AVAILABLE \in BOOLEAN
    /\ AppIdle

NextMemory == GenerationCheckMemory \/ RecoveryCheckMemory

SpecMemory == InitMemory /\ [][NextMemory]_vars

\* The application from its start: the user's actions on the wizard, the
\* worker threads, and the delivery of their signals.
InitApp ==
    /\ gen = PasswordGenerator(1, 1, TRUE, FALSE, FALSE, FALSE, FALSE, ScaledLimit)
    /\ GenIdle
    /\ ThreadIdle
    /\ AppIdle
    /\ SearchIdle

User == browse_pdf \/ CloseMessageBox \/ toggle_no_limit \/ toggle_disclaimer_checkbox
        \/ go_to_next_step \/ go_to_previous_step \/ cancel_generation
        \/ start_password_recovery \/ toggle_pause_recovery \/ cancel_recovery

NextApp == User \/ GenerationWorker \/ RecoveryWorker \/ DeliverSignal

SpecApp == InitApp /\ [][NextApp]_vars

\* One search from start_password_recovery() on: the wizard is on the last
\* page with a validated file and a list, the bar is reset, and the search
\* thread is the one run() above describes; its signals reach the slots
\* through DeliverEvent.
InitDelivery ==
    /\ \E n \in {1, BATCH_SIZE + 1} :
        /\ password_list = CandidateList(n)
        /\ accepts \in {{}, {1000 + 1}, {1000 + n}}
    /\ pc = "start"
    /\ i = 0
    /\ j = 0
    /\ end_batch = 0
    /\ current_position = 0
    /\ paused = FALSE
    /\ cancelled = FALSE
    /\ tested = <<>>
    /\ events = <<>>
    /\ hist = HistInit
    /\ gen = PasswordGenerator(1, 1, TRUE, FALSE, FALSE, FALSE, FALSE, ScaledLimit)
    /\ GenIdle
    /\ ThreadIdle
    /\ current_index = LAST_STEP
    /\ pdf_path \in Paths
    /\ validated = {pdf_path}
    /\ modal = <<>>
    /\ app_list = "nonempty"
    /\ options = [no_limit |-> FALSE, disclaimer |-> FALSE, disclaimer_enabled |-> FALSE]
    /\ generation_threads = <<>>
    /\ recovery_threads = <<NewRecoveryThread>>
    /\ stale_dialog = FALSE
    /\ started = 2
    /\ signals = <<>>
    /\ delivered = 0
    /\ buttons = [start |-> FALSE, pause |-> TRUE, cancel |-> TRUE]
    /\ is_recovery_paused = FALSE
    /\ progress_bar = 0
    /\ aborted = FALSE

NextDelivery == Worker \/ pause \/ resume \/ cancel \/ DeliverEvent

SpecDelivery == InitDelivery /\ [][NextDelivery]_vars

\* the worker is scheduled while it is not blocked, and the event loop of
\* the GUI thread keeps delivering
FairSpecDelivery == SpecDelivery /\ WF_vars(Worker) /\ WF_vars(DeliverEvent)

\* One generation from show_password_generation_dialog() on: the wizard is
\* on the options page with a validated file, the dialog is open, and the
\* thread self.generation_thread refers to is the one GenerationRun
\* describes.
InitGeneration ==
    /\ gen = PasswordGenerator(1, 1, TRUE, FALSE, FALSE, FALSE, FALSE, ScaledLimit)
    /\ GenIdle
    /\ SearchIdle
    /\ gt_cancelled = FALSE
    /\ gt_events = <<>>
    /\ gt_pc = "start"
    /\ gt_calls = <<>>
    /\ mem = Checked("none", NO_PSUTIL, FALSE, FALSE, FALSE)
    /\ PSUTIL_AVAILABLE \in BOOLEAN
    /\ current_index = 1
    /\ pdf_path \in Paths
    /\ validated = {pdf_path}
    /\ modal = <<>>
    /\ app_list = "empty"
    /\ options = [no_limit |-> FALSE, disclaimer |-> FALSE, disclaimer_enabled |-> FALSE]
    /\ generation_threads = <<NewGenerationThread(FALSE, FALSE)>>
    /\ recovery_threads = <<>>
    /\ stale_dialog = FALSE
    /\ started = 1
    /\ signals = <<>>
    /\ delivered = 0
    /\ buttons = [start |-> TRUE, pause |-> FALSE, cancel |-> FALSE]
    /\ is_recovery_paused = FALSE
    /\ progress_bar = 0
    /\ aborted = FALSE

NextGeneration ==
    GenerationRun \/ CancelGeneration \/ DeliverGenerationEvent \/ CloseMessageBox

SpecGeneration == InitGeneration /\ [][NextGeneration]_vars

-----------------------------------------------------------------------------
(* Properties *)

Range(f) == { f[x] : x \in DOMAIN f }

Last(q) == q[Len(q)]

\* the candidates of a given length in the list built so far
OfLength(len) == { passwords[x] : x \in { y \in 1..Len(passwords) : Len(passwords[y]) = len } }

\* C1: with a finite MAX_PASSWORDS the estimate is at most MAX_PASSWORDS, and
\* at every point of generate_passwords, whichever product loop is running,
\* count (and the list built so far) never exceeds MAX_PASSWORDS.
C1_BudgetRespected ==
    gen.MAX_PASSWORDS # INF =>
        /\ count <= gen.MAX_PASSWORDS
        /\ Len(passwords) = count
        /\ gen_pc # "idle" => total_estimate <= gen.MAX_PASSWORDS
        /\ estimate_count(gen, ScaledClassSize) <= gen.MAX_PASSWORDS

\* C1 witness: the cap is hit inside the structured fallback
C1_Witness ==
    /\ gen_pc = "done"
    /\ gen.MAX_PASSWORDS # INF
    /\ count = gen.MAX_PASSWORDS
    /\ total_estimate = gen.MAX_PASSWORDS
    /\ group \in {"lower", "mixed"}

\* C8: when generate_passwords returns without a callback having stopped it,
\* for every length L <= 3 of the policy the candidates of length L are
\* exactly all L-tuples over the active charset, whether or not the cap was
\* reached.
C8_ShortLengthsComplete ==
    (gen_pc = "done" /\ ~stop_req) =>
        \A len \in gen.min_length..Min(gen.max_length, SHORT_LENGTH) :
            OfLength(len) = [1..len -> Range(chars)]

\* C8 witness: a finite cap that is reached while length 3 is being emitted
C8_Witness ==
    /\ gen_pc = "done"
    /\ ~stop_req
    /\ gen.MAX_PASSWORDS # INF
    /\ count = gen.MAX_PASSWORDS
    /\ length = SHORT_LENGTH
    /\ gen.min_length < SHORT_LENGTH

ClaimedCharsetSize(self) ==
    LET n == (IF self.use_lowercase THEN 26 ELSE 0)
           + (IF self.use_uppercase THEN 26 ELSE 0)
           + (IF self.use_digits THEN 10 ELSE 0)
           + (IF self.use_special THEN 8 ELSE 0)
    IN  IF n = 0 THEN 26 ELSE n

\* c^lo + ... + c^hi in closed form (c > 1, lo <= hi)
GeometricSum(c, lo, hi) == (c ^ lo) * (((c ^ (hi - lo + 1)) - 1) \div (c - 1))

\* C10: estimate_count() is min(sum of |charset|^L for L in min_length..max_length,
\* MAX_PASSWORDS) with a finite cap and the plain sum without one, |charset|
\* being 26/26/10/8 per selected class (26 if none); lengths 1..2 with
\* lowercase and digits give 1332; and the charset generate_passwords builds
\* for the same flags has that many characters.
C10_EstimateIsCappedSum ==
    LET c   == ClaimedCharsetSize(gen)
        sum == GeometricSum(c, gen.min_length, gen.max_length)
    IN  /\ est # -1 =>
              /\ est = IF gen.MAX_PASSWORDS = INF THEN sum ELSE Min(sum, 1000000)
              /\ (/\ gen.min_length = 1 /\ gen.max_length = 2
                  /\ gen.use_lowercase /\ gen.use_digits
                  /\ ~gen.use_uppercase /\ ~gen.use_special) => est = 1332
        /\ chars # <<>> => Len(chars) = CharCount(gen, CLASS_SIZE) /\ Len(chars) = c

\* C10 witness: the 1332 example, estimate and charset both computed
C10_Witness ==
    /\ est = 1332
    /\ Len(chars) = 36
    /\ gen.min_length = 1
    /\ gen.max_length = 2

\* the run ended with password_found / password_not_found
Found == events # <<>> /\ Last(events)[1] = "password_found"
NotFound == events # <<>> /\ Last(events)[1] = "password_not_found"

\* the (0-based) indices of the candidates decrypt() accepts
AcceptedIndices == { x \in 0..(total - 1) : Candidate(x) \in accepts }

\* C2: the indices tested so far are 0, 1, 2, ... in ascending order, each
\* once; a worker blocked at the gate has cursor k equal to the number tested;
\* and a worker that was released by resume(), was not cancelled and ended
\* without an accepted candidate has tested every index up to total - 1, so
\* after the resume exactly k .. total-1 were tested, once each and in order.
C2_ResumeNoGapNoRepeat ==
    /\ tested = [x \in 1..Len(tested) |-> x - 1]
    /\ pc = "waiting" => hist.gate_k = current_position /\ Len(tested) = current_position
    /\ (hist.resumed /\ ~cancelled /\ pc = "done") =>
          \/ Found /\ Candidate(Last(tested)) \in accepts
          \/ NotFound /\ Len(tested) = total

\* C2 witness: blocked at cursor 100, resumed, finished the list
C2_Witness ==
    /\ hist.resumed
    /\ hist.gate_k = BATCH_SIZE
    /\ ~cancelled
    /\ pc = "done"
    /\ NotFound
    /\ Len(tested) = total
    /\ total > BATCH_SIZE

\* C3: once cancel() has been invoked after pause() (paused was set when
\* cancel() ran), the worker terminates, wherever it was: blocked at the
\* gate, about to reach it or inside a batch.  (No pause() after the cancel.)
C3_CancelWhilePausedTerminates ==
    hist.paused_at_cancel ~> (pc = "done" \/ hist.late_pause)

\* C3 witness: cancel() found the worker blocked at the gate, and it ended
C3_Witness ==
    /\ hist.paused_at_cancel
    /\ hist.cancel_at_gate
    /\ ~hist.late_pause
    /\ pc = "done"

C5_CancelAlwaysTerminates == cancelled ~> (pc = "done")

\* C6: a search that ended without having been cancelled (and without an I/O
\* failure on an accepted candidate) reports password_found with the first
\* accepted candidate of the list, the candidates before it having been
\* tested; with no accepted candidate in the list it reports
\* password_not_found after testing every candidate.
C6_EndToEndResult ==
    (pc = "done" /\ ~cancelled /\ ~hist.io_fault) =>
        IF AcceptedIndices # {}
        THEN LET first == CHOOSE x \in AcceptedIndices : \A y \in AcceptedIndices : x <= y
             IN  /\ Last(events) = <<"password_found", Candidate(first)>>
                 /\ Len(tested) = first + 1
        ELSE /\ Last(events) = <<"password_not_found">>
             /\ Len(tested) = total
             /\ \A x \in 0..(total - 1) : \E y \in 1..Len(tested) : tested[y] = x

\* C6 witness: two accepted candidates, the earlier one reported
C6_Witness ==
    /\ pc = "done"
    /\ ~cancelled
    /\ ~hist.io_fault
    /\ Cardinality(AcceptedIndices) = 2
    /\ Found
    /\ Len(tested) = BATCH_SIZE + 1

\* C7: every test is made on the candidate at the cursor, one test at a time;
\* a failed attempt on index j leaves the cursor at j + 1; the cursor never
\* moves back, so no index below it is tested again.
C7_InOrderFromCursor ==
    [][ /\ current_position' >= current_position
        /\ tested' # tested =>
              /\ tested' = Append(tested, current_position)
              /\ pc' # "done" => current_position' = current_position + 1
              /\ pc' = "done" => current_position' = current_position ]_vars

\* C7 witness: the cursor has crossed a batch boundary, one test per index
C7_Witness ==
    /\ current_position = BATCH_SIZE + 1
    /\ Len(tested) = BATCH_SIZE + 1
    /\ tested[1] = 0

\* the charset in the stated class order: lowercase, uppercase, digits,
\* special (lowercase alone when no class is selected)
ClaimedCharset(self) ==
    LET cs == (IF self.use_lowercase THEN ScaledAlphabet.lower ELSE <<>>)
              \o (IF self.use_uppercase THEN ScaledAlphabet.upper ELSE <<>>)
              \o (IF self.use_digits THEN ScaledAlphabet.digits ELSE <<>>)
              \o (IF self.use_special THEN ScaledAlphabet.special ELSE <<>>)
    IN  IF cs = <<>> THEN ScaledAlphabet.lower ELSE cs

\* all n-tuples over pool in odometer order: every (n-1)-tuple in order, each
\* extended by every character of pool in order (rightmost varies fastest)
RECURSIVE AllTuples(_, _)
AllTuples(pool, n) ==
    IF n = 0 THEN << <<>> >>
    ELSE LET prev == AllTuples(pool, n - 1)
             m    == Len(pool)
         IN  [x \in 1..(Len(prev) * m) |->
                 Append(prev[((x - 1) \div m) + 1], pool[((x - 1) % m) + 1])]

\* positions of the list built so far that hold a candidate shorter than len,
\* and of length len
ShorterThan(len) == { x \in 1..Len(passwords) : Len(passwords[x]) < len }
AtLength(len) == { x \in 1..Len(passwords) : Len(passwords[x]) = len }

\* C11: when generate_passwords returns without a callback having stopped
\* it, the list is in ascending length within min_length..max_length, and for
\* each length L of the policy such that the candidates emitted before L plus
\* |charset|^L do not exceed MAX_PASSWORDS (equality included, always without
\* a cap), the candidates of length L are exactly the L-tuples over the
\* charset (classes in the order lowercase, uppercase, digits, special) in
\* odometer order, rightmost position fastest, each once.
C11_FullProductInOrder ==
    (gen_pc = "done" /\ ~stop_req) =>
        /\ \A x \in 1..(Len(passwords) - 1) : Len(passwords[x]) <= Len(passwords[x + 1])
        /\ \A x \in 1..Len(passwords) : Len(passwords[x]) \in gen.min_length..gen.max_length
        /\ \A len \in gen.min_length..gen.max_length :
              LET cs     == ClaimedCharset(gen)
                  before == Cardinality(ShorterThan(len))
                  size   == Len(cs) ^ len
              IN  (gen.MAX_PASSWORDS = INF \/ before + size <= gen.MAX_PASSWORDS) =>
                     /\ Cardinality(AtLength(len)) = size
                     /\ SubSeq(passwords, before + 1, before + size) = AllTuples(cs, len)

\* C11 witness: lengths 1..3 over the whole alphabet fill the cap exactly
\* (emitted so far + |charset|^3 = MAX_PASSWORDS) and the call has returned
C11_Witness ==
    /\ gen_pc = "done"
    /\ ~stop_req
    /\ gen.min_length = 1
    /\ length = SHORT_LENGTH
    /\ group = "full"
    /\ Cardinality(ShorterThan(SHORT_LENGTH)) + Len(chars) ^ SHORT_LENGTH = gen.MAX_PASSWORDS
    /\ count = gen.MAX_PASSWORDS
    /\ calls.groups = << [length |-> 1, group |-> "full", start |-> 0],
                         [length |-> 2, group |-> "full", start |-> Len(chars)],
                         [length |-> 3, group |-> "full",
                          start |-> Len(chars) + Len(chars) ^ 2] >>

\* every concatenation of a lowercase prefix of length len \div 2 with a digit
\* suffix of the remaining length: prefixes in the outer loop, suffixes in
\* the inner one
MixedTuples(len) ==
    LET pre == AllTuples(ScaledAlphabet.lower, len \div 2)
        suf == AllTuples(ScaledAlphabet.digits, len - (len \div 2))
        m   == Len(suf)
    IN  [x \in 1..(Len(pre) * m) |-> pre[((x - 1) \div m) + 1] \o suf[((x - 1) % m) + 1]]

\* what the structured fallback lists for a length above 3
FallbackTuples(self, len) ==
    (IF self.use_lowercase THEN AllTuples(ScaledAlphabet.lower, len) ELSE <<>>)
    \o (IF self.use_digits THEN AllTuples(ScaledAlphabet.digits, len) ELSE <<>>)
    \o (IF self.use_lowercase /\ self.use_digits THEN MixedTuples(len) ELSE <<>>)

\* C12: when generate_passwords returns without a callback having stopped
\* it, for each length L > 3 of the policy such that the candidates emitted
\* before L plus |charset|^L exceed MAX_PASSWORDS, the candidates of length L
\* are, in this order and nothing else: the lowercase L-tuples if lowercase
\* is selected, the digit L-tuples if digits is selected, and if both are
\* selected the lowercase prefixes of length L div 2 each followed by every
\* digit suffix of length L - L div 2; the whole cut where count reaches
\* MAX_PASSWORDS.
C12_StructuredFallback ==
    (gen_pc = "done" /\ ~stop_req) =>
        /\ \A x \in 1..(Len(passwords) - 1) : Len(passwords[x]) <= Len(passwords[x + 1])
        /\ \A len \in Max(gen.min_length, SHORT_LENGTH + 1)..gen.max_length :
              LET before == Cardinality(ShorterThan(len))
                  size   == Len(ClaimedCharset(gen)) ^ len
              IN  (gen.MAX_PASSWORDS # INF /\ before + size > gen.MAX_PASSWORDS) =>
                     LET expected == FallbackTuples(gen, len)
                         n == Min(Len(expected), gen.MAX_PASSWORDS - before)
                     IN  /\ Cardinality(AtLength(len)) = n
                         /\ SubSeq(passwords, before + 1, before + n) = SubSeq(expected, 1, n)

\* C12 witness: the three passes of length 4 have run to their end below the cap
C12_Witness ==
    /\ gen_pc = "done"
    /\ ~stop_req
    /\ gen.use_lowercase /\ gen.use_digits
    /\ gen.min_length = SHORT_LENGTH + 1
    /\ gen.max_length = SHORT_LENGTH + 1
    /\ count < gen.MAX_PASSWORDS
    /\ count = 3 * (Len(ScaledAlphabet.lower) ^ 4)
    /\ calls.groups = << [length |-> 4, group |-> "lower", start |-> 0],
                         [length |-> 4, group |-> "digits", start |-> 16],
                         [length |-> 4, group |-> "mixed", start |-> 32] >>

\* the final progress notifications logged so far (at the cap, or after the
\* for over lengths)
FinalCalls(c) == { x \in 1..Len(c.progress) : c.progress[x][1] \in {"cap", "end"} }

\* C13: with a finite MAX_PASSWORDS, the iteration that brings count to
\* MAX_PASSWORDS is the last one, in whichever product loop and at whichever
\* length: generate_passwords returns with the list built so far plus that
\* candidate, the last progress notification it made carrying (count,
\* total_estimate); unless a callback of that same iteration asked to stop,
\* that notification is the one final progress_callback of the cap, made
\* once; once generate_passwords has returned the list does not change.
C13_HardStop ==
    [][ /\ (gen.MAX_PASSWORDS # INF /\ gen_pc = "emit" /\ count' = gen.MAX_PASSWORDS) =>
              /\ gen_pc' = "done"
              /\ Len(passwords') = gen.MAX_PASSWORDS
              /\ SubSeq(passwords', 1, count) = passwords
              /\ Last(calls'.progress)[2] = gen.MAX_PASSWORDS
              /\ Last(calls'.progress)[3] = total_estimate
              /\ ~stop_req' =>
                    /\ Last(calls'.progress) = <<"cap", gen.MAX_PASSWORDS, total_estimate>>
                    /\ Cardinality(FinalCalls(calls')) = 1
        /\ gen_pc = "done" => (passwords' = passwords /\ count' = count) ]_vars

\* C13 witness: the cap was reached with a longer length still to come, and
\* the call returned after its final progress update
C13_Witness ==
    /\ gen_pc = "done"
    /\ ~stop_req
    /\ gen.MAX_PASSWORDS # INF
    /\ count = gen.MAX_PASSWORDS
    /\ Len(passwords) = gen.MAX_PASSWORDS
    /\ length < gen.max_length
    /\ Last(calls.progress) = <<"cap", count, total_estimate>>

\* C14: once an invocation of progress_callback has returned False, the
\* initial invocation with count 0 included, generate_passwords appends no
\* further candidate to the list it returns.
C14_ProgressStopHonoured ==
    [][ (calls.progress_stop_at # -1 /\ gen_pc # "idle") => passwords' = passwords ]_vars

\* C15: once an invocation of pattern_callback has returned False, the
\* invocation with the label of a group included, generate_passwords appends
\* no further candidate to the list it returns.
C15_PatternStopHonoured ==
    [][ (calls.pattern_stop_at # -1 /\ gen_pc # "idle") => passwords' = passwords ]_vars

\* the signals emitted by the thread whose check_memory_usage() was called
CheckedEvents == IF mem.phase = "generation" THEN gt_events ELSE events

\* C16: in the generation thread and in the search thread, a check whose
\* sample is exactly 80% of memory_limit_mb emits memory_warning.
C16_WarningAtEightyPercent ==
    (mem.phase # "none" /\ mem.sample * 10 = MEMORY_LIMIT_MB * 8) =>
        CheckedEvents = << <<"memory_warning", mem.sample>> >>

\* C17: a check whose sample is at or above the critical threshold of its
\* phase (95% of memory_limit_mb in the generation thread, 100% in the search
\* thread) leaves the thread cancelled; a sample below it leaves cancelled
\* as it was; and the two thresholds differ.
C17_CriticalThresholds ==
    /\ MEMORY_LIMIT_MB * 95 # MEMORY_LIMIT_MB * 100
    /\ mem.phase = "generation" =>
          /\ mem.sample * 100 >= MEMORY_LIMIT_MB * 95 => gt_cancelled
          /\ mem.sample * 100 < MEMORY_LIMIT_MB * 95 => gt_cancelled = mem.cancelled_before
    /\ mem.phase = "search" =>
          /\ mem.sample >= MEMORY_LIMIT_MB => cancelled
          /\ mem.sample < MEMORY_LIMIT_MB => cancelled = mem.cancelled_before

\* C18: a check that gets no sample, psutil being unavailable or the
\* measurement raising, emits no memory_warning, leaves cancelled (and paused,
\* in the search thread) as they were, and lets no exception out: the worker
\* is where it was when it called the check.
C18_MonitoringDegrades ==
    (mem.phase # "none" /\ mem.sample < 0) =>
        /\ CheckedEvents = <<>>
        /\ ~mem.raised
        /\ mem.phase = "generation" => gt_cancelled = mem.cancelled_before
        /\ mem.phase = "search" =>
              /\ cancelled = mem.cancelled_before
              /\ paused = mem.paused_before
              /\ pc = "after_batch"

\* C18 witness: the measurement raised in the search thread, which was paused
\* and not cancelled, and is so still
C18_Witness ==
    /\ mem.phase = "search"
    /\ mem.sample = PSUTIL_RAISES
    /\ paused
    /\ ~cancelled
    /\ events = <<>>

\* C19: an attempt on which try_password fails with an I/O or parse error
\* (here on a candidate decrypt() would accept) is answered False: the worker
\* emits no result for it, sets the cursor just past that candidate and stays
\* in its loop, neither cancelled nor paused by the failure; and a search
\* that met such failures and was not cancelled still ends only with
\* password_found for a later candidate or with password_not_found after the
\* whole list.
C19_AttemptFailureIsWrongPassword ==
    [][ /\ hist'.io_fault_at # hist.io_fault_at =>
              /\ ~try_password(Candidate(j), FALSE)
              /\ tested' = Append(tested, j)
              /\ current_position' = j + 1
              /\ pc' \in {"batch", "after_batch"}
              /\ cancelled' = cancelled /\ paused' = paused
              /\ \A x \in (Len(events) + 1)..Len(events') :
                    events'[x][1] = "current_password_update"
        /\ (pc' = "done" /\ hist'.io_fault /\ ~cancelled') =>
              \/ /\ Last(events')[1] = "password_found"
                 /\ Len(tested') - 1 > hist'.io_fault_at
              \/ /\ Last(events')[1] = "password_not_found"
                 /\ Len(tested') = total ]_vars

\* C19 witness: the attempt on the accepted candidate at index 100 failed,
\* the search went on and found the accepted candidate that ends the list
C19_Witness ==
    /\ hist.io_fault_at = BATCH_SIZE
    /\ pc = "done"
    /\ ~cancelled
    /\ Found
    /\ total = MaxTotal
    /\ Len(tested) = total
    /\ current_position = total - 1

\* C20: from the moment cancel() has returned the worker tests at most 100
\* further candidates (one batch), wherever it was: inside a batch, blocked
\* at the gate, or between the cancel check and the pause check; it stops
\* silently only at the cancel check that opens a batch, never inside an
\* attempt; and it terminates.  (No pause() after the cancel: C5.)
C20_BoundedCancellation ==
    /\ [](hist.cancel_mark # -1 => Len(tested) - hist.cancel_mark <= BATCH_SIZE)
    /\ [][ (pc' = "done" /\ pc # "done" /\ events' = events) =>
              (pc = "check_cancelled" /\ cancelled) ]_vars
    /\ (hist.cancel_mark # -1) ~> (pc = "done" \/ hist.late_pause)

\* C20 witness: cancel() found the worker blocked at the gate before the
\* first batch; the worker tested exactly one batch and ended, short of the
\* end of the list
C20_Witness ==
    /\ hist.cancel_at_gate
    /\ hist.cancel_mark = 0
    /\ Len(tested) = hist.cancel_mark + BATCH_SIZE
    /\ Len(tested) < total
    /\ pc = "done"

-----------------------------------------------------------------------------
(* C21 -- pause(), resume() and cancel() are idempotent: a method invoked
   directly after itself (nothing else having written the flags since)
   leaves paused and cancelled as the first invocation left them; and no
   step of the worker or of the driver takes cancelled from true to false. *)
C21_IdempotentCalls ==
    /\ [][(pause /\ hist.last_call = "pause")
            => (paused' = paused /\ cancelled' = cancelled)]_vars
    /\ [][(resume /\ hist.last_call = "resume")
            => (paused' = paused /\ cancelled' = cancelled)]_vars
    /\ [][(cancel /\ hist.last_call = "cancel")
            => (paused' = paused /\ cancelled' = cancelled)]_vars
    /\ [][cancelled => cancelled']_vars

\* each of the three methods has been invoked twice in a row, the search
\* is cancelled and still running
C21_Witness ==
    /\ hist.twice = {"pause", "resume", "cancel"}
    /\ cancelled
    /\ Running

-----------------------------------------------------------------------------
(* PDFPasswordRecoveryApp *)

GenerationRunning == RunningThreads(generation_threads) # {}
RecoveryRunning == RunningThreads(recovery_threads) # {}

\* this step creates and starts a generation / a search thread
GenerationStarts ==
    started' # started /\ generation_threads' # generation_threads
RecoveryStarts ==
    started' # started /\ recovery_threads' # recovery_threads

(* C22 -- at no time do two generation threads run, and at no time do two
   search threads run, whatever the user does. *)
C22_OneWorkerOfAKind ==
    /\ Cardinality(RunningThreads(generation_threads)) <= 1
    /\ Cardinality(RunningThreads(recovery_threads)) <= 1

(* C23 -- in every reachable state of the application, no generation thread
   runs while a search thread runs. *)
C23_NeverBothKinds == ~(GenerationRunning /\ RecoveryRunning)

(* C24 -- whenever a generation or search thread is started, self.pdf_path
   is a path validate_pdf has returned valid for. *)
C24_StartedOnValidatedDocument ==
    [][(GenerationStarts \/ RecoveryStarts) => pdf_path \in validated]_vars

(* C25 -- a generation thread is started with no_limit = true only in a
   state where the no-limit box and the disclaimer box are both checked, and
   only after the confirmation prompt was answered Yes; and a step that
   unchecks the no-limit box leaves the disclaimer box unchecked. *)
C25_UnlimitedNeedsAcknowledgment ==
    /\ [][(GenerationStarts
              /\ generation_threads'[Len(generation_threads')].no_limit)
            => /\ options.no_limit
               /\ options.disclaimer
               /\ generation_threads'[Len(generation_threads')].confirmed]_vars
    /\ [][(options.no_limit /\ ~options'.no_limit) => ~options'.disclaimer]_vars
    /\ [](options.disclaimer => options.no_limit)

\* an unlimited generation is running, and the no-limit box has been
\* unchecked since (which cleared the acknowledgment)
C25_Witness ==
    /\ \E n \in DOMAIN generation_threads :
          generation_threads[n].state = "running" /\ generation_threads[n].no_limit
    /\ ~options.no_limit
    /\ ~options.disclaimer
    /\ ~aborted

\* the index in events of the password_found signal, 0 if there is none
FoundAt ==
    IF \E x \in DOMAIN events : events[x][1] = "password_found"
    THEN CHOOSE x \in DOMAIN events : events[x][1] = "password_found"
    ELSE 0

(* C26 -- when try_password accepts a candidate, password_found is emitted
   with that candidate in the same step and run() has returned; after that
   no candidate is tested and no signal is emitted; handling password_found
   puts the progress bar at 100, it is still 100 when everything emitted
   has been handled, and that point is reached. *)
C26_FoundStopsAtHundred ==
    /\ [][(tested' # tested /\ Candidate(Last(tested')) \in accepts
             /\ hist'.io_fault_at # Last(tested'))
            => /\ pc' = "done"
               /\ events' = Append(IF Last(tested') % SAMPLE_EVERY = 0
                                   THEN Append(events, <<"current_password_update",
                                                        Candidate(Last(tested'))>>)
                                   ELSE events,
                                   <<"password_found", Candidate(Last(tested'))>>)]_vars
    /\ [][Found => (tested' = tested /\ events' = events /\ pc' = "done")]_vars
    /\ [][(delivered' = FoundAt /\ delivered # FoundAt) => progress_bar' = 100]_vars
    /\ []((Found /\ delivered = Len(events)) => progress_bar = 100)
    /\ (Found ~> (delivered = Len(events) /\ progress_bar = 100))

\* the last candidate of a list of 101 was accepted after a completed batch
\* (whose progress signal said 99), and password_found has been handled
C26_Witness ==
    /\ Found
    /\ Len(tested) = BATCH_SIZE + 1
    /\ \E x \in DOMAIN events : events[x][1] = "progress_update" /\ events[x][2] < 100
    /\ delivered = Len(events)
    /\ progress_bar = 100

-----------------------------------------------------------------------------
\* the fields of the thread object named as shared state
SharedFields == {"paused", "cancelled", "current_position"}

(* C27 -- every read and every write of paused, cancelled and
   current_position, by the driving thread or by the worker, is made while
   the accessing thread holds self.mutex. *)
C27_AllAccessesUnderMutex ==
    \A a \in hist.accesses : a[2] \in SharedFields => a[4]

(* C27, as the code has it -- every read and every write of paused and
   cancelled is made while the accessing thread holds self.mutex;
   current_position is read and written by the worker thread only, and
   without the mutex. *)
C27_FlagsUnderMutex ==
    \A a \in hist.accesses :
        /\ a[2] \in {"paused", "cancelled"} => a[4]
        /\ a[2] = "current_position" => (a[1] = "worker" /\ ~a[4])

\* the driver has paused, resumed and cancelled, the worker has read both
\* flags, has cancelled itself in a memory check, and has moved the cursor
C27_Witness ==
    /\ hist.twice # {}
    /\ {Access("driver", "paused", "write", TRUE),
         Access("driver", "cancelled", "write", TRUE),
         Access("worker", "cancelled", "write", TRUE),
         Access("worker", "cancelled", "read", TRUE),
         Access("worker", "paused", "read", TRUE),
         Access("worker", "current_position", "read", FALSE),
         Access("worker", "current_position", "write", FALSE)} \subseteq hist.accesses

-----------------------------------------------------------------------------
(* C28: batches and progress events of the search worker *)

\* the progress_update events emitted so far, in order
ProgressUpdates == SelectSeq(events, LAMBDA e : e[1] = "progress_update")

\* the index just past the k-th batch of a run that starts at index 0
BatchEnd(k) == Min(k * BATCH_SIZE, total)

\* one progress event per completed batch of 100 (the last may be shorter);
\* the values are non-decreasing, lie in 0..100, and 100 comes only after
\* the last candidate of the list was tested
ProgressShape(updates) ==
    /\ pc \in {"batch", "after_batch"} =>
           /\ end_batch = BatchEnd(Len(updates) + 1)
           /\ i = BatchEnd(Len(updates))
    /\ pc \in {"loop", "check_cancelled", "check_paused", "waiting", "woken"} =>
           i = BatchEnd(Len(updates))
    /\ \A k \in 1..Len(updates) :
           /\ updates[k][2] \in 0..PERCENT
           /\ k > 1 => updates[k - 1][2] <= updates[k][2]
           /\ updates[k][2] = PERCENT =>
                  Len(tested) = total /\ tested[total] = total - 1

\* C28: the worker tests the candidates in batches of 100 (the last one
\* may be shorter) and emits, after each completed batch, exactly one
\* progress event with the value floor(cursor * 100 / total), the cursor
\* being the index just past the batch; the values are non-decreasing, lie
\* in 0..100, and 100 is emitted only after the last candidate was tested.
C28_ProgressAfterEachBatch ==
    \A updates \in {ProgressUpdates} :
        /\ ProgressShape(updates)
        /\ \A k \in 1..Len(updates) :
               updates[k][2] = (BatchEnd(k) * PERCENT) \div total

\* the part of C28 that does not depend on the arithmetic
C28_Shape == \A updates \in {ProgressUpdates} : ProgressShape(updates)

\* SpecLongList passes through the initial states of SpecBatchEnd: at the
\* end of each of its first batches the worker is as AtBatchEnd describes
BatchEndsAsObserved ==
    \A b \in 1..ObservedFrom :
        (pc = "after_batch" /\ end_batch = b * BATCH_SIZE) => AtBatchEnd(b)

-----------------------------------------------------------------------------
(* C29: the memory polls of the search worker *)

\* the sample of the latest poll is at least least: the worker is cancelled
\* by it
CancelledByPoll(h, least) == h.polls # <<>> /\ h.polls[Len(h.polls)][2] >= least

\* one poll per 1000 candidates, after each batch whose start index is a
\* multiple of 1000
PollCadence ==
    /\ Len(hist.polls) = (i + MEMORY_CHECK_EVERY - 1) \div MEMORY_CHECK_EVERY
    /\ \A k \in 1..Len(hist.polls) : hist.polls[k][1] = (k - 1) * MEMORY_CHECK_EVERY

\* a poll whose sample is at least least does what cancel() does: cancelled
\* set, paused cleared, nobody left at the gate
PollCancels(least) ==
    (Len(hist'.polls) = Len(hist.polls) + 1 /\ CancelledByPoll(hist', least))
        => (cancelled' /\ ~paused' /\ pc' # "waiting")

\* from such a poll on the worker tests nothing and emits nothing but what a
\* cancelled worker does: it ends at the next cancel check, silently, or the
\* list is finished
StopsAfterPoll(least) ==
    CancelledByPoll(hist, least) =>
        /\ tested' = tested
        /\ cancelled'
        /\ (pc = "check_cancelled" /\ pc' # pc) => (pc' = "done" /\ events' = events)
        /\ events' # events => (pc = "loop" /\ i = total /\ pc' = "done")

\* C29: during the search the memory is polled once per 1000 candidates
\* (after each batch whose start index is a multiple of 1000), and a
\* critical poll, one whose sample is at or above 100% of memory_limit_mb,
\* has exactly the effect of a user's cancel(): cancelled becomes true,
\* paused false, the gate is woken, and the worker stops at the next batch
\* boundary with the events of a user cancellation.
C29_CriticalPollIsCancel ==
    /\ []PollCadence
    /\ [][PollCancels(MEMORY_LIMIT_MB)]_vars
    /\ [][StopsAfterPoll(MEMORY_LIMIT_MB)]_vars

\* the same for the polls that sample more than memory_limit_mb
C29_AboveLimit ==
    /\ []PollCadence
    /\ [][PollCancels(MEMORY_LIMIT_MB + 1)]_vars
    /\ [][StopsAfterPoll(MEMORY_LIMIT_MB + 1)]_vars

\* the first poll sampled exactly the limit and the worker went on; the
\* second, after the batch that starts at 1000, sampled more and cancelled it
C29_Reached ==
    /\ Len(hist.polls) = 2
    /\ hist.polls[2][2] > MEMORY_LIMIT_MB
    /\ hist.polls[1][2] = MEMORY_LIMIT_MB
    /\ cancelled
    /\ pc = "done"

-----------------------------------------------------------------------------
(* C30: the cadence of progress_callback in generate_passwords *)

\* the counts progress_callback has been given so far, in order
ProgressCounts == [k \in 1..Len(calls.progress) |-> calls.progress[k][2]]

\* the counts the cadence asks for when cnt candidates have been emitted:
\* 0, the multiples of interval up to cnt, and cnt once more if the call has
\* finished at the hard stop or at its normal end
CadenceCounts(interval, cnt, finished) ==
    <<0>> \o [k \in 1..(cnt \div interval) |-> k * interval]
          \o (IF finished THEN <<cnt>> ELSE <<>>)

\* C30: with interval = max(1, min(10000, total_estimate div 100)),
\* generate_passwords invokes progress_callback once with count 0 before
\* the first candidate, then exactly at every emitted count that is a
\* multiple of interval, and once more when it finishes at the hard stop or
\* at its normal end; every invocation passes the same total_estimate, and
\* the counts passed are non-decreasing.
C30_ProgressCadence ==
    gen_pc # "idle" =>
        /\ progress_interval = Max(1, Min(10000, total_estimate \div 100))
        /\ ProgressCounts =
               CadenceCounts(progress_interval, count, gen_pc = "done" /\ ~stop_req)
        /\ \A k \in 1..Len(calls.progress) :
               /\ calls.progress[k][3] = total_estimate
               /\ k > 1 => calls.progress[k - 1][2] <= calls.progress[k][2]

\* C30 witness: a call with an interval above 1 has come to its end (hard
\* stop or normal end) on a count that is no multiple of the interval, after
\* the initial and several periodic invocations
C30_Witness ==
    /\ gen_pc = "done"
    /\ ~stop_req
    /\ progress_interval > 1
    /\ count % progress_interval # 0
    /\ Len(calls.progress) = count \div progress_interval + 2
    /\ Len(calls.progress) > 4

-----------------------------------------------------------------------------
(* C31: the cursor of the search worker *)

\* the number of candidates try_password has returned False for so far
RejectedCount == IF Found THEN Len(tested) - 1 ELSE Len(tested)

(* C31 -- in every state of a search run 0 <= cursor <= total and the cursor
   (self.current_position) equals the number of candidates tested and
   rejected so far; when a candidate has been accepted the cursor is the
   index of that candidate, the one password_found carries; and no step
   decreases the cursor. *)
C31_CursorInvariant ==
    /\ [](/\ 0 <= current_position
          /\ current_position <= total
          /\ current_position = RejectedCount
          /\ Found => /\ current_position < total
                      /\ Last(tested) = current_position
                      /\ Candidate(current_position) \in accepts
                      /\ Last(events) = <<"password_found", Candidate(current_position)>>)
    /\ [][current_position' >= current_position]_vars

\* C31 witness: the candidate at index 100 was accepted after 100 rejections
C31_Witness ==
    /\ Found
    /\ current_position = BATCH_SIZE
    /\ Len(tested) = BATCH_SIZE + 1
    /\ pc = "done"

-----------------------------------------------------------------------------
(* C32: the terminal events of a search run *)

\* the password_found and password_not_found events emitted so far
TerminalEvents ==
    SelectSeq(events, LAMBDA e : e[1] \in {"password_found", "password_not_found"})

(* C32 -- a search run emits at most one of password_found and
   password_not_found, and at most once; the event is the last thing the
   worker emits and the worker has terminated with it; a worker that has
   terminated without either event has cancelled = true. *)
C32_AtMostOneTerminalEvent ==
    \A terminals \in {TerminalEvents} :
        /\ Len(terminals) <= 1
        /\ terminals # <<>> => pc = "done" /\ Last(events) = terminals[1]
        /\ (pc = "done" /\ terminals = <<>>) => cancelled

\* C32 witness: cancelled during the first batch of a longer list, the worker
\* has returned at the next cancel check without a terminal event
C32_Witness ==
    /\ pc = "done"
    /\ cancelled
    /\ TerminalEvents = <<>>
    /\ Len(tested) = BATCH_SIZE
    /\ total > BATCH_SIZE

-----------------------------------------------------------------------------
(* C33 -- password_not_found is emitted only when every candidate of the
   list has been tested and rejected: once it is emitted, the indices
   0 .. total-1 have each been tested, in order, the cursor is total and
   password_found has not been emitted; whatever pause(), resume(), cancel()
   and memory polls were interleaved with the worker. *)
C33_NotFoundOnlyWhenExhausted ==
    (\E x \in 1..Len(events) : events[x][1] = "password_not_found") =>
        /\ tested = [x \in 1..total |-> x - 1]
        /\ current_position = total
        /\ \A x \in 1..Len(events) : events[x][1] # "password_found"

\* C33 witness: cancel() woke the worker at the gate of the last batch; the
\* worker tested that batch and reported the exhausted list
C33_Witness ==
    /\ NotFound
    /\ cancelled
    /\ hist.cancel_at_gate
    /\ hist.gate_k = 2 * BATCH_SIZE
    /\ Len(tested) = total
    /\ total = MaxTotal

-----------------------------------------------------------------------------
\* the groups whose product loop the running call has entered
GroupsEntered == { calls.groups[x].group : x \in 1..Len(calls.groups) }

(* C34 -- the list generate_passwords builds never holds a string twice:
   at every moment of a call, and so in the list it returns (complete, cut
   at the cap or stopped by a callback), the entries are pairwise
   different, across the full products, the lowercase, digit and
   letter-digit passes and across lengths. *)
C34_NoDuplicateCandidate ==
    Cardinality(Range(passwords)) = Len(passwords)

\* C34 witness: a returned list made of full products of the short lengths
\* and of the three structured passes of length 4
C34_Witness ==
    /\ gen_pc = "done"
    /\ ~stop_req
    /\ GroupsEntered = {"full", "lower", "digits", "mixed"}
    /\ gen.min_length = 1
    /\ Len(passwords) > 100

-----------------------------------------------------------------------------
(* C35 -- every string generate_passwords appends, whichever branch appends
   it, has a length from min_length to max_length, is made of characters of
   the selected classes only (lowercase when none is selected) and is not
   shorter than the string appended before it; so every string of the
   returned list is such a string and the lengths along the returned list
   never decrease. *)
\* the string is one the policy allows
Allowed(password) ==
    /\ Len(password) >= gen.min_length
    /\ Len(password) <= gen.max_length
    /\ Range(password) \subseteq Range(ClaimedCharset(gen))

C35_LengthsAndCharset ==
    /\ passwords # <<>> =>
          /\ Allowed(Last(passwords))
          /\ Len(passwords) > 1 => Len(passwords[Len(passwords) - 1]) <= Len(Last(passwords))
    /\ gen_pc = "done" =>
          /\ \A x \in 1..Len(passwords) : Allowed(passwords[x])
          /\ \A x \in 1..(Len(passwords) - 1) : Len(passwords[x]) <= Len(passwords[x + 1])

\* C35 witness: with uppercase selected as well, full products of lengths 2
\* and 3 are followed by the structured passes of length 4
C35_Witness ==
    /\ gen_pc = "done"
    /\ ~stop_req
    /\ gen.use_uppercase
    /\ gen.min_length = 2
    /\ GroupsEntered = {"full", "lower", "digits", "mixed"}
    /\ Len(passwords[1]) = 2
    /\ Len(Last(passwords)) = MaxLength

-----------------------------------------------------------------------------
(* C36 -- during and after a generate_passwords call the number of strings
   appended (count, the length of the list) never exceeds total_estimate,
   the value of estimate_count() for the policy; every progress_callback
   invocation is given that total_estimate and a count not above it, also
   when the structured passes are used. *)
C36_CountWithinEstimate ==
    gen_pc # "idle" =>
        /\ total_estimate = estimate_count(gen, ScaledClassSize)
        /\ Len(passwords) = count
        /\ count <= total_estimate
        /\ \A x \in 1..Len(calls.progress) :
              /\ calls.progress[x][3] = total_estimate
              /\ calls.progress[x][2] <= total_estimate

\* C36 witness: a capped policy whose length 4 was enumerated by the
\* structured passes ended below the estimate, which is the cap
C36_Witness ==
    /\ gen_pc = "done"
    /\ ~stop_req
    /\ "mixed" \in GroupsEntered
    /\ total_estimate = ScaledLimit
    /\ count < total_estimate
    /\ Last(calls.progress) = <<"end", count, total_estimate>>

-----------------------------------------------------------------------------
(* C37: a cancelled generation *)

\* the signals the generation thread emits in this step
NewGenerationEvents == SubSeq(gt_events', Len(gt_events) + 1, Len(gt_events'))

\* the signals that hand the result over: progress 100 and the list
Delivering(sig) ==
    sig = <<"progress_update", PERCENT>> \/ sig[1] = "password_list_ready"

(* C37 -- once cancel() has returned on the generation thread (called by the
   user's cancel_generation() or by the thread's own critical memory check)
   while run() has not finished, the thread emits neither progress 100 nor
   password_list_ready; and the wizard is never on the search page with the
   list of a generation that was cancelled. *)
C37_CancelledNeverDelivers ==
    /\ [][(gt_cancelled /\ GenerationIsRunning) =>
              \A x \in 1..Len(NewGenerationEvents) : ~Delivering(NewGenerationEvents[x])]_vars
    /\ [](gt_cancelled => (current_index < LAST_STEP /\ app_list = "empty"))

\* the same for a cancellation that has returned before run() tests the flag
\* after generate_passwords: nothing is delivered, the wizard stays
C37_CancelledBeforeTheTest ==
    /\ [][(gt_cancelled /\ gt_pc \in {"start", "generating", "returned"}) =>
              /\ gt_cancelled'
              /\ gt_pc' # "ready"
              /\ \A x \in 1..Len(NewGenerationEvents) :
                    ~Delivering(NewGenerationEvents[x])]_vars
    /\ []((gt_cancelled /\ gt_pc # "ready"
             /\ \A x \in 1..Len(gt_events) : gt_events[x][1] # "password_list_ready")
          => (current_index < LAST_STEP /\ app_list = "empty"))

\* a generation cancelled by its own memory check has ended without a list
C37_Reached ==
    /\ gt_pc = "done"
    /\ gt_cancelled
    /\ \E x \in 1..Len(gt_events) : gt_events[x][1] = "memory_warning"
    /\ delivered = Len(gt_events)
    /\ current_index = 1

-----------------------------------------------------------------------------
(* C38: the pause gate *)

\* this step takes the worker out of check_paused() and into a batch
LeavesGate == pc \in {"check_paused", "woken"} /\ pc' = "batch"

(* C38 -- whenever the search worker leaves the pause gate and begins a
   batch while cancelled is false, paused is false at that moment, whatever
   pause() and resume() calls were interleaved with it, a resume() followed
   by a pause() before the woken worker runs again included. *)
C38_GateOpensOnlyUnpaused ==
    [][(LeavesGate /\ ~cancelled) => ~paused]_vars

\* the same for a worker that did not have to wait at the gate, and for a
\* woken one: it was released by a resume() or a cancel() made since it
\* blocked
C38_GateWithoutWaiting ==
    /\ [][(pc = "check_paused" /\ pc' = "batch") => ~paused]_vars
    /\ [][(pc = "woken" /\ pc' = "batch") => (hist.resumed \/ cancelled)]_vars

\* a woken worker has begun the second batch although pause() was invoked
\* again after the resume()
C38_Reached ==
    /\ pc = "batch"
    /\ paused
    /\ ~cancelled
    /\ hist.resumed
    /\ hist.gate_k = BATCH_SIZE
    /\ j = BATCH_SIZE
    /\ Len(tested) = BATCH_SIZE

=============================================================================
